---------------------------- MODULE Spec2Model ----------------------------
(***************************************************************************)
(* narmol: scope matching engine (package scope) and the workflow          *)
(* orchestrators (package active, package recon, runWorkflow).             *)
(*                                                                         *)
(* Strings are TLA+ strings; TLC evaluates Len, SubSeq, Head, Tail and \o  *)
(* on them, so the Go string functions are modelled character by           *)
(* character.  Positions are 1-based; 0 stands for Go's -1 (not found).    *)
(***************************************************************************)
EXTENDS Integers, Sequences, FiniteSets, TLC

(***************************************************************************)
(* Go package strings                                                      *)
(***************************************************************************)
Upper == "ABCDEFGHIJKLMNOPQRSTUVWXYZ"

Lower == "abcdefghijklmnopqrstuvwxyz"

Digits == "0123456789"

CharAt(s, i) == SubSeq(s, i, i)

\* position of the one-character string c in alphabet, 0 when absent
Min(S) == CHOOSE x \in S : \A y \in S : x <= y

Max(S) == CHOOSE x \in S : \A y \in S : x >= y

MinOr0(S) == IF S = {} THEN 0 ELSE Min(S)

MaxOr0(S) == IF S = {} THEN 0 ELSE Max(S)

PosIn(alphabet, c) == MinOr0({i \in 1..Len(alphabet) : CharAt(alphabet, i) = c})

\* c mapped from the alphabet from to the alphabet to, position by position
MapChar(c, from, to, p) == IF p = 0 THEN c ELSE CharAt(to, p)

LowerChar(c) == MapChar(c, Upper, Lower, PosIn(Upper, c))

RECURSIVE ToLower(_)
ToLower(s) == IF s = "" THEN "" ELSE LowerChar(Head(s)) \o ToLower(Tail(s))

IsSpace(c) == c \in {" ", "\t", "\n", "\r"}

RECURSIVE TrimLeftSpace(_)
TrimLeftSpace(s) ==
    IF s # "" /\ IsSpace(Head(s)) THEN TrimLeftSpace(Tail(s)) ELSE s

RECURSIVE TrimRightSpace(_)
TrimRightSpace(s) ==
    IF s # "" /\ IsSpace(CharAt(s, Len(s)))
    THEN TrimRightSpace(SubSeq(s, 1, Len(s) - 1))
    ELSE s

TrimSpace(s) == TrimRightSpace(TrimLeftSpace(s))

HasPrefix(s, prefix) ==
    Len(s) >= Len(prefix) /\ SubSeq(s, 1, Len(prefix)) = prefix

HasSuffix(s, suffix) ==
    Len(s) >= Len(suffix) /\ SubSeq(s, Len(s) - Len(suffix) + 1, Len(s)) = suffix

TrimPrefix(s, prefix) ==
    IF HasPrefix(s, prefix) THEN SubSeq(s, Len(prefix) + 1, Len(s)) ELSE s

\* the positions at which sub occurs in s
Occurrences(s, sub) ==
    {i \in 1..(Len(s) - Len(sub) + 1) : SubSeq(s, i, i + Len(sub) - 1) = sub}

Index(s, sub) == MinOr0(Occurrences(s, sub))

LastIndex(s, sub) == MaxOr0(Occurrences(s, sub))

Contains(s, sub) == Occurrences(s, sub) # {}

Count(s, sub) == Cardinality(Occurrences(s, sub))

RECURSIVE TrimLeftSet(_, _)
TrimLeftSet(s, cutset) ==
    IF s # "" /\ Contains(cutset, Head(s)) THEN TrimLeftSet(Tail(s), cutset) ELSE s

RECURSIVE TrimRightSet(_, _)
TrimRightSet(s, cutset) ==
    IF s # "" /\ Contains(cutset, CharAt(s, Len(s)))
    THEN TrimRightSet(SubSeq(s, 1, Len(s) - 1), cutset)
    ELSE s

Trim(s, cutset) == TrimRightSet(TrimLeftSet(s, cutset), cutset)

\* strings.Split(s, sep) for a one-character sep: never empty, keeps empty fields
RECURSIVE Split(_, _)
splitAt(s, sep, i) ==
    IF i = 0 THEN <<s>>
    ELSE <<SubSeq(s, 1, i - 1)>> \o Split(SubSeq(s, i + 1, Len(s)), sep)

Split(s, sep) == splitAt(s, sep, Index(s, sep))

(***************************************************************************)
(* Go package net, IPv4 only.  An address is a tuple of four octets; Nil   *)
(* is Go's nil pointer.  The inputs of this model hold no IPv6 literal.    *)
(***************************************************************************)
Nil == <<>>

IsDigits(s) == s # "" /\ \A i \in 1..Len(s) : PosIn(Digits, CharAt(s, i)) # 0

RECURSIVE Dtoi(_)
Dtoi(s) ==
    IF s = "" THEN 0
    ELSE 10 * Dtoi(SubSeq(s, 1, Len(s) - 1)) + (PosIn(Digits, CharAt(s, Len(s))) - 1)

\* one dotted-decimal field: 1 to 3 digits, no leading zero, at most 255
IsOctet(f) ==
    /\ IsDigits(f)
    /\ Len(f) <= 3
    /\ (Len(f) > 1 => Head(f) # "0")
    /\ Dtoi(f) <= 255

ipFromFields(f) ==
    IF Len(f) = 4 /\ \A i \in 1..4 : IsOctet(f[i])
    THEN [i \in 1..4 |-> Dtoi(f[i])]
    ELSE Nil

ParseIP(s) == ipFromFields(Split(s, "."))

Pow2(n) == CASE n = 0 -> 1 [] n = 1 -> 2 [] n = 2 -> 4 [] n = 3 -> 8 [] n = 4 -> 16
             [] n = 5 -> 32 [] n = 6 -> 64 [] n = 7 -> 128 [] OTHER -> 256

\* how many of the 8 bits of octet i a mask of ones leading bits keeps
KeptBits(ones, i) ==
    IF ones >= 8 * i THEN 8
    ELSE IF ones <= 8 * (i - 1) THEN 0
    ELSE ones - 8 * (i - 1)

\* octet i of ip under a mask of ones leading bits
MaskOctet(ip, ones, i) ==
    (ip[i] \div Pow2(8 - KeptBits(ones, i))) * Pow2(8 - KeptBits(ones, i))

cidrFromParts(ip, mask) ==
    IF ip # Nil /\ IsDigits(mask) /\ Len(mask) <= 2 /\ Dtoi(mask) <= 32
    THEN [ip |-> [k \in 1..4 |-> MaskOctet(ip, Dtoi(mask), k)], ones |-> Dtoi(mask)]
    ELSE Nil

cidrSplitAt(s, i) ==
    IF i = 0 THEN Nil
    ELSE cidrFromParts(ParseIP(SubSeq(s, 1, i - 1)), SubSeq(s, i + 1, Len(s)))

\* net.ParseCIDR: the network (the address masked) and the prefix length
ParseCIDR(s) == cidrSplitAt(s, Index(s, "/"))

\* CidrContains that accepts the network address only
CidrContainsNetworkAddress(cidr, ip) == ip = cidr.ip

\* (*net.IPNet).Contains
CidrContains(cidr, ip) ==
    \A k \in 1..4 : MaskOctet(ip, cidr.ones, k) = cidr.ip[k]

\* net.IP.Equal
IPEqual(a, b) == a = b

(***************************************************************************)
(* package scope                                                           *)
(***************************************************************************)
\* type rule
Rule(pattern, exclude, ip, cidr) ==
    [pattern |-> pattern, exclude |-> exclude, ip |-> ip, cidr |-> cidr]

\* &Scope{}
EmptyScope == [includes |-> <<>>, excludes |-> <<>>]

\* processLine from the classification on: CIDR first, then single IP
classify(pattern, exclude, cidr) ==
    Rule(pattern, exclude, IF cidr # Nil THEN Nil ELSE ParseIP(pattern), cidr)

addRule(s, r) ==
    IF r.exclude THEN [s EXCEPT !.excludes = Append(@, r)]
    ELSE [s EXCEPT !.includes = Append(@, r)]

\* processLine from the exclusion prefix on
parseRule(s, line) ==
    IF HasPrefix(line, "-")
    THEN addRule(s, classify(TrimPrefix(line, "-"), TRUE, ParseCIDR(TrimPrefix(line, "-"))))
    ELSE addRule(s, classify(line, FALSE, ParseCIDR(line)))

\* processLine: the inline comment is cut at idx, the first " #"
stripInlineComment(line, idx) ==
    IF idx # 0 THEN TrimSpace(SubSeq(line, 1, idx - 1)) ELSE line

processTrimmed(s, line) ==
    IF line = "" \/ HasPrefix(line, "#") THEN s
    ELSE parseRule(s, stripInlineComment(line, Index(line, " #")))

processLine(s, line) == processTrimmed(s, TrimSpace(line))

RECURSIVE processLines(_, _)
processLines(s, parts) ==
    IF parts = <<>> THEN s
    ELSE processLines(processLine(s, Head(parts)), Tail(parts))

\* the nil error
NoError == "nil"

\* what os.Stat finds at a path: nothing, a directory, or a regular file
\* (openable or not, its lines, whether reading it fails)
MissingEntry == [kind |-> "missing"]

DirEntry == [kind |-> "dir"]

FileEntry(openable, lines, readErr) ==
    [kind |-> "file", openable |-> openable, lines |-> lines, readErr |-> readErr]

\* Load's return values (*Scope, error)
Returned(s, err) == [scope |-> s, err |-> err]

\* loadResult that returns the scope whatever it holds
loadResultUnchecked(s) == Returned(s, NoError)

\* Load: the check of the include rules and the return
loadResult(s) ==
    IF Len(s.includes) = 0
    THEN Returned(Nil, "scope contains no inclusion rules")
    ELSE Returned(s, NoError)

\* Load: the branch of a file
loadFile(entry) ==
    IF ~entry.openable THEN Returned(Nil, "could not open scope file")
    ELSE IF entry.readErr THEN Returned(Nil, "error reading scope file")
    ELSE loadResult(processLines(EmptyScope, entry.lines))

\* Load: the branch of a direct string, comma-separated
loadDirect(input) == loadResult(processLines(EmptyScope, Split(input, ",")))

\* Load(input), entry being what the file system holds at the path input
Load(input, entry) ==
    IF entry.kind = "file" THEN loadFile(entry) ELSE loadDirect(input)

\* matchLowered with the suffix test taken without the separating dot
matchLoweredNoBoundary(pattern, target) ==
    \/ pattern = target
    \/ /\ HasPrefix(pattern, "*.")
       /\ HasSuffix(target, SubSeq(pattern, 3, Len(pattern)))

\* matchPattern after both arguments were lowercased
matchLowered(pattern, target) ==
    \/ pattern = target
    \/ /\ HasPrefix(pattern, "*.")
       /\ \/ target = SubSeq(pattern, 3, Len(pattern))
          \/ HasSuffix(target, "." \o SubSeq(pattern, 3, Len(pattern)))

matchPattern(pattern, target) == matchLowered(ToLower(pattern), ToLower(target))

matchRule(r, target, targetIP) ==
    IF r.cidr # Nil THEN targetIP # Nil /\ CidrContains(r.cidr, targetIP)
    ELSE IF r.ip # Nil THEN targetIP # Nil /\ IPEqual(r.ip, targetIP)
    ELSE matchPattern(r.pattern, target)

\* IsInScope: strip protocol if present
stripProtocol(target, idx) ==
    IF idx # 0 THEN SubSeq(target, idx + 3, Len(target)) ELSE target

\* IsInScope: strip port if present, unless the last ":" is inside brackets
stripPort(target, idx) ==
    IF idx # 0 /\ ~Contains(SubSeq(target, idx, Len(target)), "]")
    THEN SubSeq(target, 1, idx - 1)
    ELSE target

\* IsInScope: strip trailing path
stripPath(target, idx) ==
    IF idx # 0 THEN SubSeq(target, 1, idx - 1) ELSE target

normProtocol(t) == stripProtocol(t, Index(t, "://"))

normPort(t) == stripPort(t, LastIndex(t, ":"))

normPath(t) == stripPath(t, Index(t, "/"))

\* the target as IsInScope matches it, the steps in the order of the code
normalizeTarget(raw) ==
    Trim(normPath(normPort(normProtocol(ToLower(TrimSpace(raw))))), "[]")

\* checkRules with the include rules consulted first
checkRulesIncludesFirst(s, target, targetIP) ==
    IF \E i \in 1..Len(s.includes) : matchRule(s.includes[i], target, targetIP)
    THEN TRUE
    ELSE FALSE

\* IsInScope after normalization: exclusions first, then inclusions
checkRules(s, target, targetIP) ==
    IF \E i \in 1..Len(s.excludes) : matchRule(s.excludes[i], target, targetIP)
    THEN FALSE
    ELSE \E i \in 1..Len(s.includes) : matchRule(s.includes[i], target, targetIP)

checkTarget(s, target) == checkRules(s, target, ParseIP(target))

IsInScope(s, raw) == checkTarget(s, normalizeTarget(raw))

\* HasWildcard for one include pattern
wildcardCovers(pattern, target) ==
    /\ HasPrefix(pattern, "*.")
    /\ \/ target = SubSeq(pattern, 3, Len(pattern))
       \/ HasSuffix(target, "." \o SubSeq(pattern, 3, Len(pattern)))

anyWildcard(s, target) ==
    \E i \in 1..Len(s.includes) : wildcardCovers(s.includes[i].pattern, target)

\* HasWildcard that also asks IsInScope
HasWildcardInScope(s, raw) ==
    anyWildcard(s, ToLower(TrimSpace(raw))) /\ IsInScope(s, raw)

HasWildcard(s, raw) == anyWildcard(s, ToLower(TrimSpace(raw)))

Elements(seq) == {seq[i] : i \in 1..Len(seq)}

\* addDomain without the seen map
addDomainRepeats(domains, r, domain) ==
    IF r.ip # Nil \/ r.cidr # Nil THEN domains ELSE Append(domains, domain)

\* Domains: one include rule
addDomain(domains, r, domain) ==
    IF r.ip # Nil \/ r.cidr # Nil \/ domain \in Elements(domains)
    THEN domains
    ELSE Append(domains, domain)

RECURSIVE domainsFrom(_, _)
domainsFrom(includes, domains) ==
    IF includes = <<>> THEN domains
    ELSE domainsFrom(Tail(includes),
                     addDomain(domains, Head(includes),
                               ToLower(TrimPrefix(Head(includes).pattern, "*."))))

Domains(s) == domainsFrom(s.includes, <<>>)

(***************************************************************************)
(* Bounds and inputs of the model                                          *)
(***************************************************************************)
\* raw candidates one Discovery enumeration reports at most
MaxDiscovered == 2

\* calls of Workflow.Run over the life of the output files
MaxRuns == 2

\* length of the generated targets handed to matchPattern
MaxTargetLen == 3

\* scope definitions given with --scope (direct, comma-separated strings)
ScopeSources ==
    { "*.example.com,-admin.example.com",
      "*.a.io,*.b.io,-x.b.io",
      "api.example.com,-*.example.com,*.a.io",
      "*.Example.com,api.other.org,10.0.0.0/24,-10.0.0.5",
      "*.a.io,www.example.com" }

\* hosts the Discovery collaborator may report (raw, as received)
Candidates == { "www.example.com", "admin.example.com", " w.a.io ", "" }

\* historical URLs the gau providers may report
\* the hosts subfinder may report for a base of the recursive pass
DeeperCandidates == Candidates \cup {"a.www.example.com"}

UrlCandidates == { "https://www.example.com/p", "http://admin.example.com/" }

\* -o / -oj as resolved by the command line
OutputChoices ==
    { [TextFile |-> "", JSONFile |-> ""],
      [TextFile |-> "out.txt", JSONFile |-> ""],
      [TextFile |-> "", JSONFile |-> "out.json"],
      [TextFile |-> "out.txt", JSONFile |-> "out.json"] }

WorkflowNames == {"active", "activeSequential", "recon"}

(***************************************************************************)
(* State                                                                   *)
(***************************************************************************)
VARIABLES
    scope,          \* *scope.Scope, immutable after Load
    workflow,       \* name of the workflow runWorkflow runs
    opts,           \* workflows.OutputOptions
    di,             \* runWorkflow: index into Domains() of the current domain
    runs,           \* Run calls started so far
    textOut,        \* content of the text output file, one entry per line
    jsonOut,        \* content of the JSON output file, one entry per line
    console,        \* result lines printed to stdout
    pc,             \* position of Run
    domain,         \* Run's domain argument
    ret,            \* Run's return value
    cnt,            \* totalFound, inScope, excluded, activeCount
    fifo,           \* the named pipe: created, open ends, buffered lines
    textFile,       \* "nil", "open" or "closed"
    jsonFile,       \* "nil", "open" or "closed"
    subfinderErr,
    httpxErr,
    ppc,            \* position of the subfinder (producer) goroutine
    cpc,            \* position of the httpx (consumer) goroutine
    discovered,     \* raw hosts reported by Discovery in this Run, in order
    hosts,          \* the in-memory host list of the non-streaming variant
    probed,         \* candidates the Probe collaborator has received, in order
    pending,        \* candidates httpx is probing, result not yet delivered
    seen,           \* recon: the keys of the sync.Map seen
    bases,          \* recon: base domains still to be enumerated recursively
    base,           \* recon: the base domain being enumerated
    sfRuns,         \* recon: Domain and MaxEnumerationTime of each sfOptions built
    query           \* the last direct call of a scope function

progVars == <<scope, workflow, opts>>

loopVars == <<di, runs>>

sinkVars == <<textOut, jsonOut, console>>

frameVars == <<pc, domain, ret, cnt, textFile, jsonFile, subfinderErr, httpxErr>>

taskVars == <<fifo, ppc, cpc, discovered, hosts, probed, pending>>

reconVars == <<seen, bases, base, sfRuns>>

vars == <<progVars, loopVars, sinkVars, frameVars, taskVars, reconVars, query>>

ZeroCounters ==
    [totalFound |-> 0, inScope |-> 0, excluded |-> 0, activeCount |-> 0,
     subdomainCount |-> 0, urlCount |-> 0]

NoFifo == [created |-> FALSE, writer |-> "none", reader |-> "none", buf |-> <<>>]

NoQuery == [op |-> "none"]

\* the locals of a Run call before its first statement
FreshFrame ==
    /\ ret = NoError
    /\ cnt = ZeroCounters
    /\ textFile = "nil"
    /\ jsonFile = "nil"
    /\ subfinderErr = NoError
    /\ httpxErr = NoError
    /\ fifo = NoFifo
    /\ ppc = "none"
    /\ cpc = "none"
    /\ discovered = <<>>
    /\ hosts = <<>>
    /\ probed = <<>>
    /\ pending = <<>>
    /\ seen = {}
    /\ bases = {}
    /\ base = ""
    /\ sfRuns = <<>>

(***************************************************************************)
(* Result sink: the OnResult callback of the active workflow               *)
(***************************************************************************)
\* what httpx reports for one target it was given
ProbeResult(input, failed) ==
    [URL |-> "https://" \o input, Input |-> input, Host |-> input, Port |-> "443",
     Scheme |-> "https", StatusCode |-> 200, Title |-> "", WebServer |-> "",
     Technologies |-> <<>>, CDN |-> FALSE, CDNName |-> "", Body |-> "<html>",
     Err |-> failed]

\* the fields of activeResult: Go name, JSON key, omitempty tag, zero value
ActiveResultFields ==
    { [field |-> "URL", key |-> "url", omitempty |-> FALSE, zero |-> ""],
      [field |-> "Input", key |-> "input", omitempty |-> FALSE, zero |-> ""],
      [field |-> "Host", key |-> "host", omitempty |-> FALSE, zero |-> ""],
      [field |-> "Port", key |-> "port", omitempty |-> TRUE, zero |-> ""],
      [field |-> "Scheme", key |-> "scheme", omitempty |-> FALSE, zero |-> ""],
      [field |-> "StatusCode", key |-> "status_code", omitempty |-> FALSE, zero |-> 0],
      [field |-> "Title", key |-> "title", omitempty |-> TRUE, zero |-> ""],
      [field |-> "Webserver", key |-> "webserver", omitempty |-> TRUE, zero |-> ""],
      [field |-> "Tech", key |-> "tech", omitempty |-> TRUE, zero |-> <<>>],
      [field |-> "CDN", key |-> "cdn", omitempty |-> TRUE, zero |-> FALSE],
      [field |-> "CDNName", key |-> "cdn_name", omitempty |-> TRUE, zero |-> ""] }

\* the field of activeResult with the JSON key key
FieldOf(key) == CHOOSE f \in ActiveResultFields : f.key = key

compactFromResult(r) ==
    [URL |-> r.URL, Input |-> r.Input, Host |-> r.Host, Port |-> r.Port,
     Scheme |-> r.Scheme, StatusCode |-> r.StatusCode, Title |-> r.Title,
     Webserver |-> r.WebServer, Tech |-> r.Technologies, CDN |-> r.CDN,
     CDNName |-> r.CDNName]

\* json.Marshal(activeResult): the JSON object, key by key; a field tagged
\* omitempty is left out when it has its zero value
Marshal(c) ==
    [key \in {f.key : f \in {g \in ActiveResultFields :
                                 ~g.omitempty \/ c[g.field] # g.zero}}
        |-> c[FieldOf(key).field]]

\* the activeResult that compactResult fills from the parsed JSON object
\* full; a key that is missing leaves the zero value
filled(full) ==
    [name \in {f.field : f \in ActiveResultFields} |->
        LET f == CHOOSE g \in ActiveResultFields : g.field = name
        IN IF f.key \in DOMAIN full THEN full[f.key] ELSE f.zero]

\* json.Unmarshal of a line: the object of a JSON line, an error otherwise
Unmarshal(line) == [err |-> ~line.json, object |-> line.object]

\* compactResult(jsonLine): the serialized compact record and its url, or
\* two empty strings when the line is no JSON object
compactResult(line) ==
    IF Unmarshal(line).err THEN [clean |-> "", url |-> ""]
    ELSE [clean |-> Marshal(filled(Unmarshal(line).object)),
          url |-> filled(Unmarshal(line).object).URL]

\* one line of an output destination, tagged with the Run call that wrote it
Line(text) == [run |-> runs, text |-> text]

\* OnResult without the test of r.Err: a failed result is written too
OnResultWritesFailed(r) ==
    LET compact == compactFromResult(r)
    IN /\ cnt' = [cnt EXCEPT !.activeCount = @ + 1]
       /\ console' = IF textFile = "nil" /\ jsonFile = "nil"
                     THEN Append(console, Line(compact.URL)) ELSE console
       /\ textOut' = IF textFile # "nil"
                     THEN Append(textOut, Line(compact.URL)) ELSE textOut
       /\ jsonOut' = IF jsonFile # "nil"
                     THEN Append(jsonOut, Line(Marshal(compact))) ELSE jsonOut

OnResult(r) ==
    IF r.Err THEN UNCHANGED <<cnt, sinkVars>>
    ELSE LET compact == compactFromResult(r)
         IN /\ cnt' = [cnt EXCEPT !.activeCount = @ + 1]
            /\ console' = IF textFile = "nil" /\ jsonFile = "nil"
                          THEN Append(console, Line(compact.URL)) ELSE console
            /\ textOut' = IF textFile # "nil"
                          THEN Append(textOut, Line(compact.URL)) ELSE textOut
            /\ jsonOut' = IF jsonFile # "nil"
                          THEN Append(jsonOut, Line(Marshal(compact))) ELSE jsonOut

\* the sequence seq without its element at index i
RemoveAt(seq, i) == SubSeq(seq, 1, i - 1) \o SubSeq(seq, i + 1, Len(seq))

(***************************************************************************)
(* Run: common parts                                                       *)
(***************************************************************************)
\* return err: the deferred Close calls and os.RemoveAll(tmpDir) run
Return(err) ==
    /\ ret' = err
    /\ pc' = "returned"
    /\ textFile' = IF textFile = "open" THEN "closed" ELSE textFile
    /\ jsonFile' = IF jsonFile = "open" THEN "closed" ELSE jsonFile
    /\ fifo' = [fifo EXCEPT !.created = FALSE]

\* Filter without the IsInScope test
FilterUnscoped(raw) == IF TrimSpace(raw) = "" THEN "empty" ELSE "inScope"

\* the scope filter of subfinder's ResultCallback: counters and verdict
Filter(raw) ==
    LET host == TrimSpace(raw)
    IN IF host = "" THEN "empty"
       ELSE IF ~IsInScope(scope, host) THEN "excluded"
       ELSE "inScope"

Counted(verdict) ==
    [cnt EXCEPT !.totalFound = @ + 1,
                !.excluded = IF verdict = "excluded" THEN @ + 1 ELSE @,
                !.inScope = IF verdict = "inScope" THEN @ + 1 ELSE @]

(***************************************************************************)
(* ActiveWorkflow.Run, streaming (subfinder -> FIFO -> httpx)              *)
(***************************************************************************)
\* ActivePrecheck without its two tests
ActivePrecheckUngated ==
    /\ workflow = "active"
    /\ pc = "precheck"
    /\ pc' = "mkfifo"
    /\ UNCHANGED <<progVars, loopVars, sinkVars, domain, ret, cnt, textFile, jsonFile,
                   subfinderErr, httpxErr, taskVars, reconVars, query>>

ActivePrecheck ==
    /\ workflow = "active"
    /\ pc = "precheck"
    /\ IF ~IsInScope(scope, domain)
       THEN Return("domain is not in scope")
       ELSE IF ~HasWildcard(scope, domain)
       THEN Return("active workflow requires a wildcard scope")
       ELSE /\ pc' = "mkfifo"
            /\ UNCHANGED <<ret, textFile, jsonFile, fifo>>
    /\ UNCHANGED <<progVars, loopVars, sinkVars, domain, cnt, subfinderErr, httpxErr,
                   ppc, cpc, discovered, hosts, probed, pending, reconVars, query>>

\* os.MkdirTemp and syscall.Mkfifo; either may fail
ActiveMkfifo ==
    /\ workflow = "active"
    /\ pc = "mkfifo"
    /\ \E outcome \in {"ok", "failed to create temp dir", "failed to create FIFO"} :
          IF outcome = "ok"
          THEN /\ fifo' = [fifo EXCEPT !.created = TRUE]
               /\ pc' = "openOutputs"
               /\ UNCHANGED <<ret, textFile, jsonFile>>
          ELSE Return(outcome)
    /\ UNCHANGED <<progVars, loopVars, sinkVars, domain, cnt, subfinderErr, httpxErr,
                   ppc, cpc, discovered, hosts, probed, pending, reconVars, query>>

\* os.OpenFile(..., O_APPEND|O_CREATE|O_WRONLY) of the configured files:
\* the content of an existing file is kept
OpenOutputs(next) ==
    \E outcome \in {"ok", "failed to open text output file",
                    "failed to open JSON output file"} :
       /\ outcome = "failed to open text output file" => opts.TextFile # ""
       /\ outcome = "failed to open JSON output file" => opts.JSONFile # ""
       /\ CASE outcome = "ok" ->
                 /\ textFile' = IF opts.TextFile # "" THEN "open" ELSE "nil"
                 /\ jsonFile' = IF opts.JSONFile # "" THEN "open" ELSE "nil"
                 /\ pc' = next
                 /\ UNCHANGED <<ret, fifo>>
            [] outcome = "failed to open text output file" ->
                 Return(outcome)
            [] outcome = "failed to open JSON output file" ->
                 /\ ret' = outcome
                 /\ pc' = "returned"
                 /\ textFile' = IF opts.TextFile # "" THEN "closed" ELSE "nil"
                 /\ jsonFile' = "nil"
                 /\ fifo' = [fifo EXCEPT !.created = FALSE]

\* ActiveOpenOutputs with O_TRUNC in place of O_APPEND
ActiveOpenOutputsTruncating ==
    /\ workflow = "active"
    /\ pc = "openOutputs"
    /\ OpenOutputs("startTasks")
    /\ textOut' = IF opts.TextFile # "" THEN <<>> ELSE textOut
    /\ jsonOut' = IF opts.JSONFile # "" THEN <<>> ELSE jsonOut
    /\ UNCHANGED <<progVars, loopVars, console, domain, cnt, subfinderErr, httpxErr,
                   ppc, cpc, discovered, hosts, probed, pending, reconVars, query>>

ActiveOpenOutputs ==
    /\ workflow = "active"
    /\ pc = "openOutputs"
    /\ OpenOutputs("startTasks")
    /\ UNCHANGED <<progVars, loopVars, sinkVars, domain, cnt, subfinderErr, httpxErr,
                   ppc, cpc, discovered, hosts, probed, pending, reconVars, query>>

\* the two go statements
ActiveStartTasks ==
    /\ workflow = "active"
    /\ pc = "startTasks"
    /\ pc' = "wait"
    /\ cpc' = "setup"
    /\ ppc' = "openFifo"
    /\ UNCHANGED <<progVars, loopVars, sinkVars, domain, ret, cnt, textFile, jsonFile,
                   subfinderErr, httpxErr, fifo, discovered, hosts, probed, pending, reconVars, query>>

\* consumer: ValidateOptions and httpx_runner.New; on failure the goroutine
\* goes on to os.Open(fifoPath), on success to RunEnumeration, which opens
\* the FIFO for reading
ConsumerSetup ==
    /\ cpc = "setup"
    /\ \E outcome \in {"ok", "httpx options validation failed",
                       "could not create httpx runner"} :
          IF outcome = "ok"
          THEN cpc' = "openRead" /\ UNCHANGED httpxErr
          ELSE cpc' = "openUnblock" /\ httpxErr' = outcome
    /\ UNCHANGED <<progVars, loopVars, sinkVars, pc, domain, ret, cnt, textFile, jsonFile,
                   subfinderErr, fifo, ppc, discovered, hosts, probed, pending, reconVars, query>>

\* the open of the write end and the open of the read end return together
FifoRendezvous ==
    /\ ppc = "openFifo"
    /\ cpc \in {"openRead", "openUnblock"}
    /\ fifo' = [fifo EXCEPT !.writer = "open", !.reader = "open"]
    /\ ppc' = "newRunner"
    /\ cpc' = IF cpc = "openRead" THEN "read" ELSE "closeUnblock"
    /\ UNCHANGED <<progVars, loopVars, sinkVars, frameVars, discovered, hosts, probed,
                   pending, reconVars, query>>

\* producer: os.OpenFile(fifoPath, O_WRONLY) returns an error
ProducerOpenFails ==
    /\ ppc = "openFifo"
    /\ subfinderErr' = "failed to open FIFO for writing"
    /\ ppc' = "done"
    /\ UNCHANGED <<progVars, loopVars, sinkVars, pc, domain, ret, cnt, textFile, jsonFile,
                   httpxErr, fifo, cpc, discovered, hosts, probed, pending, reconVars, query>>

\* consumer, after a failed setup: f.Close() and return
ConsumerCloseUnblock ==
    /\ cpc = "closeUnblock"
    /\ fifo' = [fifo EXCEPT !.reader = "closed"]
    /\ cpc' = "done"
    /\ UNCHANGED <<progVars, loopVars, sinkVars, frameVars, ppc, discovered, hosts,
                   probed, pending, reconVars, query>>

\* producer: subfinder_runner.NewRunner; on failure the deferred Close runs
ProducerNewRunner ==
    /\ ppc = "newRunner"
    /\ \E ok \in BOOLEAN :
          IF ok
          THEN ppc' = "enumerate" /\ UNCHANGED <<subfinderErr, fifo>>
          ELSE /\ subfinderErr' = "could not create subfinder runner"
               /\ fifo' = [fifo EXCEPT !.writer = "closed"]
               /\ ppc' = "done"
    /\ UNCHANGED <<progVars, loopVars, sinkVars, pc, domain, ret, cnt, textFile, jsonFile,
                   httpxErr, cpc, discovered, hosts, probed, pending, reconVars, query>>

\* fmt.Fprintln(fifoWriter, host): the line is lost (EPIPE) once the read
\* end is closed
FifoWrite(host) ==
    IF fifo.reader = "open" THEN [fifo EXCEPT !.buf = Append(@, host)] ELSE fifo

\* producer: subfinder calls ResultCallback with one host
ProducerResultCallbackOf(raw) ==
    /\ ppc = "enumerate"
    /\ Len(discovered) < MaxDiscovered
    /\ LET verdict == Filter(raw)
       IN /\ discovered' = Append(discovered, raw)
          /\ cnt' = Counted(verdict)
          /\ fifo' = IF verdict = "inScope" THEN FifoWrite(TrimSpace(raw)) ELSE fifo
    /\ UNCHANGED <<progVars, loopVars, sinkVars, pc, domain, ret, textFile, jsonFile,
                   subfinderErr, httpxErr, ppc, cpc, hosts, probed, pending, reconVars, query>>

ProducerResultCallback == \E raw \in Candidates : ProducerResultCallbackOf(raw)

\* producer: RunEnumerationWithCtx returns; the deferred Close runs
ProducerEnumerationReturns ==
    /\ ppc = "enumerate"
    /\ \E ok \in BOOLEAN :
          subfinderErr' = IF ok THEN subfinderErr ELSE "subfinder enumeration failed"
    /\ fifo' = [fifo EXCEPT !.writer = "closed"]
    /\ ppc' = "done"
    /\ UNCHANGED <<progVars, loopVars, sinkVars, pc, domain, ret, cnt, textFile, jsonFile,
                   httpxErr, cpc, discovered, hosts, probed, pending, reconVars, query>>

\* consumer: httpx reads the next target from the FIFO and starts probing it
ConsumerRead ==
    /\ cpc = "read"
    /\ fifo.buf # <<>>
    /\ fifo' = [fifo EXCEPT !.buf = Tail(@)]
    /\ probed' = Append(probed, Head(fifo.buf))
    /\ pending' = Append(pending, Head(fifo.buf))
    /\ UNCHANGED <<progVars, loopVars, sinkVars, frameVars, ppc, cpc, discovered, hosts,
                   reconVars, query>>

\* ConsumerEOF taking an empty pipe for the end of the stream
ConsumerEOFWhenEmpty ==
    /\ cpc = "read"
    /\ fifo.buf = <<>>
    /\ cpc' = "drain"
    /\ UNCHANGED <<progVars, loopVars, sinkVars, frameVars, fifo, ppc, discovered, hosts,
                   probed, pending, reconVars, query>>

\* consumer: end of stream, the write end is closed and the pipe is empty
ConsumerEOF ==
    /\ cpc = "read"
    /\ fifo.buf = <<>>
    /\ fifo.writer = "closed"
    /\ cpc' = "drain"
    /\ UNCHANGED <<progVars, loopVars, sinkVars, frameVars, fifo, ppc, discovered, hosts,
                   probed, pending, reconVars, query>>

\* consumer: httpx delivers the result of one probe to OnResult
ConsumerOnResultOf(i, failed) ==
    /\ cpc \in {"read", "drain"}
    /\ OnResult(ProbeResult(pending[i], failed))
    /\ pending' = RemoveAt(pending, i)
    /\ UNCHANGED <<progVars, loopVars, pc, domain, ret, textFile, jsonFile, subfinderErr,
                   httpxErr, fifo, ppc, cpc, discovered, hosts, probed, reconVars, query>>

ConsumerOnResult ==
    \E i \in 1..Len(pending), failed \in BOOLEAN : ConsumerOnResultOf(i, failed)

\* consumer: RunEnumeration returns, hxRunner.Close()
ConsumerDone ==
    /\ cpc = "drain"
    /\ pending = <<>>
    /\ fifo' = [fifo EXCEPT !.reader = "closed"]
    /\ cpc' = "done"
    /\ UNCHANGED <<progVars, loopVars, sinkVars, frameVars, ppc, discovered, hosts,
                   probed, pending, reconVars, query>>

\* ActiveJoin without the inScope == 0 test
ActiveJoinNoZeroCheck ==
    /\ workflow = "active"
    /\ pc = "wait"
    /\ ppc = "done"
    /\ cpc = "done"
    /\ IF subfinderErr # NoError THEN Return(subfinderErr)
       ELSE IF httpxErr # NoError THEN Return(httpxErr)
       ELSE Return(NoError)
    /\ UNCHANGED <<progVars, loopVars, sinkVars, domain, cnt, subfinderErr, httpxErr,
                   ppc, cpc, discovered, hosts, probed, pending, reconVars, query>>

\* ActiveJoin with httpxErr tested before subfinderErr
ActiveJoinHttpxFirst ==
    /\ workflow = "active"
    /\ pc = "wait"
    /\ ppc = "done"
    /\ cpc = "done"
    /\ IF httpxErr # NoError THEN Return(httpxErr)
       ELSE IF subfinderErr # NoError THEN Return(subfinderErr)
       ELSE IF cnt.inScope = 0 THEN Return("no subdomains remaining after scope filtering")
       ELSE Return(NoError)
    /\ UNCHANGED <<progVars, loopVars, sinkVars, domain, cnt, subfinderErr, httpxErr,
                   ppc, cpc, discovered, hosts, probed, pending, reconVars, query>>

\* sfWg.Wait(), httpxWg.Wait() and the error handling after them
ActiveJoin ==
    /\ workflow = "active"
    /\ pc = "wait"
    /\ ppc = "done"
    /\ cpc = "done"
    /\ IF subfinderErr # NoError THEN Return(subfinderErr)
       ELSE IF httpxErr # NoError THEN Return(httpxErr)
       ELSE IF cnt.inScope = 0 THEN Return("no subdomains remaining after scope filtering")
       ELSE Return(NoError)
    /\ UNCHANGED <<progVars, loopVars, sinkVars, domain, cnt, subfinderErr, httpxErr,
                   ppc, cpc, discovered, hosts, probed, pending, reconVars, query>>

(***************************************************************************)
(* ActiveWorkflow.Run, non-streaming (subfinder, then httpx over the list) *)
(***************************************************************************)
SeqPrecheck ==
    /\ workflow = "activeSequential"
    /\ pc = "precheck"
    /\ IF ~IsInScope(scope, domain)
       THEN Return("domain is not in scope")
       ELSE IF ~HasWildcard(scope, domain)
       THEN Return("active workflow requires a wildcard scope")
       ELSE /\ pc' = "newRunner"
            /\ UNCHANGED <<ret, textFile, jsonFile, fifo>>
    /\ UNCHANGED <<progVars, loopVars, sinkVars, domain, cnt, subfinderErr, httpxErr,
                   ppc, cpc, discovered, hosts, probed, pending, reconVars, query>>

SeqNewRunner ==
    /\ workflow = "activeSequential"
    /\ pc = "newRunner"
    /\ \E ok \in BOOLEAN :
          IF ok
          THEN pc' = "enumerate" /\ UNCHANGED <<ret, textFile, jsonFile, fifo>>
          ELSE Return("could not create subfinder runner")
    /\ UNCHANGED <<progVars, loopVars, sinkVars, domain, cnt, subfinderErr, httpxErr,
                   ppc, cpc, discovered, hosts, probed, pending, reconVars, query>>

SeqResultCallbackOf(raw) ==
    /\ workflow = "activeSequential"
    /\ pc = "enumerate"
    /\ Len(discovered) < MaxDiscovered
    /\ LET verdict == Filter(raw)
       IN /\ discovered' = Append(discovered, raw)
          /\ cnt' = Counted(verdict)
          /\ hosts' = IF verdict = "inScope" THEN Append(hosts, TrimSpace(raw))
                      ELSE hosts
    /\ UNCHANGED <<progVars, loopVars, sinkVars, pc, domain, ret, textFile, jsonFile,
                   subfinderErr, httpxErr, fifo, ppc, cpc, probed, pending, reconVars, query>>

SeqResultCallback == \E raw \in Candidates : SeqResultCallbackOf(raw)

\* SeqEnumerationReturns without the len(hosts) == 0 check
SeqEnumerationReturnsNoZeroCheck ==
    /\ workflow = "activeSequential"
    /\ pc = "enumerate"
    /\ \E ok \in BOOLEAN :
          IF ~ok THEN Return("subfinder enumeration failed")
          ELSE pc' = "openOutputs" /\ UNCHANGED <<ret, textFile, jsonFile, fifo>>
    /\ UNCHANGED <<progVars, loopVars, sinkVars, domain, cnt, subfinderErr, httpxErr,
                   ppc, cpc, discovered, hosts, probed, pending, reconVars, query>>

\* RunEnumerationWithCtx returns, then the len(hosts) == 0 check
SeqEnumerationReturns ==
    /\ workflow = "activeSequential"
    /\ pc = "enumerate"
    /\ \E ok \in BOOLEAN :
          IF ~ok THEN Return("subfinder enumeration failed")
          ELSE IF Len(hosts) = 0
          THEN Return("no subdomains remaining after scope filtering")
          ELSE pc' = "openOutputs" /\ UNCHANGED <<ret, textFile, jsonFile, fifo>>
    /\ UNCHANGED <<progVars, loopVars, sinkVars, domain, cnt, subfinderErr, httpxErr,
                   ppc, cpc, discovered, hosts, probed, pending, reconVars, query>>

SeqOpenOutputs ==
    /\ workflow = "activeSequential"
    /\ pc = "openOutputs"
    /\ OpenOutputs("httpxSetup")
    /\ UNCHANGED <<progVars, loopVars, sinkVars, domain, cnt, subfinderErr, httpxErr,
                   ppc, cpc, discovered, hosts, probed, pending, reconVars, query>>

\* ValidateOptions and httpx_runner.New with InputTargetHost = hosts
SeqHttpxSetup ==
    /\ workflow = "activeSequential"
    /\ pc = "httpxSetup"
    /\ \E outcome \in {"ok", "httpx options validation failed",
                       "could not create httpx runner"} :
          IF outcome = "ok"
          THEN /\ pc' = "probe"
               /\ probed' = hosts
               /\ pending' = hosts
               /\ UNCHANGED <<ret, textFile, jsonFile, fifo>>
          ELSE Return(outcome) /\ UNCHANGED <<probed, pending>>
    /\ UNCHANGED <<progVars, loopVars, sinkVars, domain, cnt, subfinderErr, httpxErr,
                   ppc, cpc, discovered, hosts, reconVars, query>>

SeqOnResultOf(i, failed) ==
    /\ workflow = "activeSequential"
    /\ pc = "probe"
    /\ OnResult(ProbeResult(pending[i], failed))
    /\ pending' = RemoveAt(pending, i)
    /\ UNCHANGED <<progVars, loopVars, pc, domain, ret, textFile, jsonFile, subfinderErr,
                   httpxErr, fifo, ppc, cpc, discovered, hosts, probed, reconVars, query>>

SeqOnResult ==
    \E i \in 1..Len(pending), failed \in BOOLEAN : SeqOnResultOf(i, failed)

\* RunEnumeration returns, hxRunner.Close(), return nil
SeqFinish ==
    /\ workflow = "activeSequential"
    /\ pc = "probe"
    /\ pending = <<>>
    /\ Return(NoError)
    /\ UNCHANGED <<progVars, loopVars, sinkVars, domain, cnt, subfinderErr, httpxErr,
                   ppc, cpc, discovered, hosts, probed, pending, reconVars, query>>

(***************************************************************************)
(* ReconWorkflow.Run (subfinder, recursive subfinder, gau)                 *)
(***************************************************************************)
\* MaxEnumerationTime of runSubfinder and of runSubfinderRecursive
FirstPassTime == 10
RecursiveTime == 5

\* the subfinder options a pass builds: the domain and the enumeration time
sfOptions(dom, maxTime) == [Domain |-> dom, MaxEnumerationTime |-> maxTime]

reconResult(type, value, source, dom) ==
    [type |-> type, value |-> value, source |-> source, domain |-> dom]

\* LoadOrStore that never reports the key as present
LoadOrStoreAlwaysStores(m, key) == [m |-> m \cup {key}, loaded |-> FALSE]

\* seen.LoadOrStore(key, true): the map afterwards and whether key was there
LoadOrStore(m, key) == [m |-> m \cup {key}, loaded |-> key \in m]

\* emit that prints to the console whatever is configured
emitAlsoConsole(r) ==
    /\ console' = Append(console, Line(r.value))
    /\ textOut' = IF textFile # "nil" THEN Append(textOut, Line(r.value)) ELSE textOut
    /\ jsonOut' = IF jsonFile # "nil" THEN Append(jsonOut, Line(r)) ELSE jsonOut

\* emit(r): fan-out of one finding to the configured destinations
emit(r) ==
    /\ console' = IF textFile = "nil" /\ jsonFile = "nil"
                  THEN Append(console, Line(r.value)) ELSE console
    /\ textOut' = IF textFile # "nil" THEN Append(textOut, Line(r.value)) ELSE textOut
    /\ jsonOut' = IF jsonFile # "nil" THEN Append(jsonOut, Line(r)) ELSE jsonOut

\* emitUnique(r): first writer wins; unique tells the caller whether r was new
emitUnique(r) ==
    LET got == LoadOrStore(seen, r.value)
    IN /\ seen' = got.m
       /\ IF got.loaded THEN UNCHANGED sinkVars ELSE emit(r)

isNew(r) == ~LoadOrStore(seen, r.value).loaded

\* ReconPrecheck without its IsInScope test
ReconPrecheckUnchecked ==
    /\ workflow = "recon"
    /\ pc = "precheck"
    /\ pc' = "openOutputs"
    /\ UNCHANGED <<ret, textFile, jsonFile, fifo>>
    /\ UNCHANGED <<progVars, loopVars, sinkVars, domain, cnt, subfinderErr, httpxErr,
                   ppc, cpc, discovered, hosts, probed, pending, reconVars, query>>

ReconPrecheck ==
    /\ workflow = "recon"
    /\ pc = "precheck"
    /\ IF ~IsInScope(scope, domain)
       THEN Return("domain is not in scope")
       ELSE pc' = "openOutputs" /\ UNCHANGED <<ret, textFile, jsonFile, fifo>>
    /\ UNCHANGED <<progVars, loopVars, sinkVars, domain, cnt, subfinderErr, httpxErr,
                   ppc, cpc, discovered, hosts, probed, pending, reconVars, query>>

ReconOpenOutputs ==
    /\ workflow = "recon"
    /\ pc = "openOutputs"
    /\ OpenOutputs("step1")
    /\ UNCHANGED <<progVars, loopVars, sinkVars, domain, cnt, subfinderErr, httpxErr,
                   ppc, cpc, discovered, hosts, probed, pending, reconVars, query>>

\* step 1 with a wildcard scope: runSubfinder up to NewRunner; a failure is
\* printed and runSubfinder returns nil, so Run goes on to gau
ReconNewRunner ==
    /\ workflow = "recon"
    /\ pc = "step1"
    /\ HasWildcard(scope, domain)
    /\ \E ok \in BOOLEAN :
          /\ pc' = IF ok THEN "enumerate" ELSE "gau"
          /\ subfinderErr' = IF ok THEN subfinderErr
                             ELSE "could not create subfinder runner"
    /\ sfRuns' = Append(sfRuns, sfOptions(domain, FirstPassTime))
    /\ UNCHANGED <<progVars, loopVars, sinkVars, domain, ret, cnt, textFile, jsonFile,
                   httpxErr, taskVars, seen, bases, base, query>>

\* step 1 without a wildcard: the domain itself is emitted
ReconExactDomain ==
    /\ workflow = "recon"
    /\ pc = "step1"
    /\ ~HasWildcard(scope, domain)
    /\ emitUnique(reconResult("subdomain", domain, "scope", domain))
    /\ cnt' = [cnt EXCEPT !.subdomainCount = @ + 1]
    /\ pc' = "gau"
    /\ UNCHANGED <<progVars, loopVars, domain, ret, textFile, jsonFile, subfinderErr,
                   httpxErr, taskVars, bases, base, sfRuns, query>>

\* runSubfinder: subfinder calls ResultCallback with one host
ReconResultCallback ==
    /\ workflow = "recon"
    /\ pc = "enumerate"
    /\ Len(discovered) < MaxDiscovered
    /\ \E raw \in Candidates :
          LET r == reconResult("subdomain", TrimSpace(raw), "subfinder", domain)
              verdict == Filter(raw)
          IN /\ discovered' = Append(discovered, raw)
             /\ IF verdict = "inScope"
                THEN /\ hosts' = Append(hosts, TrimSpace(raw))
                     /\ emitUnique(r)
                     /\ cnt' = [Counted("inScope") EXCEPT
                                  !.subdomainCount = IF isNew(r) THEN @ + 1 ELSE @]
                ELSE /\ cnt' = Counted(verdict)
                     /\ UNCHANGED <<hosts, seen, sinkVars>>
    /\ UNCHANGED <<progVars, loopVars, pc, domain, ret, textFile, jsonFile, subfinderErr,
                   httpxErr, fifo, ppc, cpc, probed, pending, bases, base, sfRuns, query>>

\* recursiveBases with a threshold of three dots
recursiveBasesDeeper(seeds) ==
    {seeds[i] : i \in {k \in 1..Len(seeds) : Count(seeds[k], ".") >= 3}}

\* the hosts that runSubfinderRecursive enumerates again
recursiveBases(seeds) == {seeds[i] : i \in {k \in 1..Len(seeds) : Count(seeds[k], ".") >= 2}}

\* runSubfinder returns: nil after a failed enumeration, else hosts; Run
\* calls runSubfinderRecursive when len(subs) > 0
ReconEnumerationReturns ==
    /\ workflow = "recon"
    /\ pc = "enumerate"
    /\ \E ok \in BOOLEAN :
          IF ok
          THEN /\ bases' = recursiveBases(hosts)
               /\ pc' = IF recursiveBases(hosts) = {} THEN "gau" ELSE "recursive"
               /\ UNCHANGED subfinderErr
          ELSE /\ subfinderErr' = "subfinder enumeration failed"
               /\ pc' = "gau"
               /\ UNCHANGED bases
    /\ UNCHANGED <<progVars, loopVars, sinkVars, domain, ret, cnt, textFile, jsonFile,
                   httpxErr, taskVars, seen, base, sfRuns, query>>

\* runSubfinderRecursive: the next base of the range over bases, and
\* NewRunner for it; on failure the loop continues
ReconRecursiveNext ==
    /\ workflow = "recon"
    /\ pc = "recursive"
    /\ IF bases = {}
       THEN pc' = "gau" /\ UNCHANGED <<bases, base, sfRuns>>
       ELSE \E b \in bases, ok \in BOOLEAN :
               /\ bases' = bases \ {b}
               /\ base' = b
               /\ sfRuns' = Append(sfRuns, sfOptions(b, RecursiveTime))
               /\ pc' = IF ok THEN "recursiveEnumerate" ELSE "recursive"
    /\ UNCHANGED <<progVars, loopVars, sinkVars, domain, ret, cnt, textFile, jsonFile,
                   subfinderErr, httpxErr, taskVars, seen, query>>

\* ReconRecursiveCallback of a loop to a fixed point: a new host found by
\* the recursive pass becomes a base itself
ReconRecursiveCallbackToFixpoint ==
    /\ workflow = "recon"
    /\ pc = "recursiveEnumerate"
    /\ Len(discovered) < MaxDiscovered
    /\ \E raw \in DeeperCandidates :
          LET r == reconResult("subdomain", TrimSpace(raw), "subfinder-recursive", base)
          IN /\ discovered' = Append(discovered, raw)
             /\ IF Filter(raw) = "inScope"
                THEN /\ emitUnique(r)
                     /\ cnt' = [cnt EXCEPT
                                  !.subdomainCount = IF isNew(r) THEN @ + 1 ELSE @]
                     /\ bases' = IF isNew(r)
                                 THEN bases \cup recursiveBases(<<r.value>>)
                                 ELSE bases
                ELSE UNCHANGED <<cnt, seen, sinkVars, bases>>
    /\ UNCHANGED <<progVars, loopVars, pc, domain, ret, textFile, jsonFile, subfinderErr,
                   httpxErr, fifo, ppc, cpc, hosts, probed, pending, base, sfRuns, query>>

\* runSubfinderRecursive: subfinder calls ResultCallback with one host
ReconRecursiveCallback ==
    /\ workflow = "recon"
    /\ pc = "recursiveEnumerate"
    /\ Len(discovered) < MaxDiscovered
    /\ \E raw \in DeeperCandidates :
          LET r == reconResult("subdomain", TrimSpace(raw), "subfinder-recursive", base)
          IN /\ discovered' = Append(discovered, raw)
             /\ IF Filter(raw) = "inScope"
                THEN /\ emitUnique(r)
                     /\ cnt' = [cnt EXCEPT
                                  !.subdomainCount = IF isNew(r) THEN @ + 1 ELSE @]
                ELSE UNCHANGED <<cnt, seen, sinkVars>>
    /\ UNCHANGED <<progVars, loopVars, pc, domain, ret, textFile, jsonFile, subfinderErr,
                   httpxErr, fifo, ppc, cpc, hosts, probed, pending, bases, base, sfRuns, query>>

\* RunEnumerationWithCtx of the recursive pass returns; its error is dropped
ReconRecursiveReturns ==
    /\ workflow = "recon"
    /\ pc = "recursiveEnumerate"
    /\ pc' = "recursive"
    /\ UNCHANGED <<progVars, loopVars, sinkVars, domain, ret, cnt, textFile, jsonFile,
                   subfinderErr, httpxErr, taskVars, reconVars, query>>

\* runGau: gau.Init; on failure runGau returns and Run returns nil
ReconGauInit ==
    /\ workflow = "recon"
    /\ pc = "gau"
    /\ \E ok \in BOOLEAN :
          IF ok THEN pc' = "collect" /\ UNCHANGED <<ret, textFile, jsonFile, fifo>>
          ELSE Return(NoError)
    /\ UNCHANGED <<progVars, loopVars, sinkVars, domain, cnt, subfinderErr, httpxErr,
                   ppc, cpc, discovered, hosts, probed, pending, reconVars, query>>

\* runGau: the collector goroutine takes one URL from the results channel
ReconGauCollect ==
    /\ workflow = "recon"
    /\ pc = "collect"
    /\ Len(discovered) < MaxDiscovered
    /\ \E raw \in UrlCandidates :
          LET r == reconResult("url", TrimSpace(raw), "gau", domain)
          IN /\ discovered' = Append(discovered, raw)
             /\ IF Filter(raw) = "inScope"
                THEN /\ emitUnique(r)
                     /\ cnt' = [cnt EXCEPT !.urlCount = IF isNew(r) THEN @ + 1 ELSE @]
                ELSE UNCHANGED <<cnt, seen, sinkVars>>
    /\ UNCHANGED <<progVars, loopVars, pc, domain, ret, textFile, jsonFile, subfinderErr,
                   httpxErr, fifo, ppc, cpc, hosts, probed, pending, bases, base, sfRuns, query>>

\* gau.Wait(), close(results), wg.Wait(), the summary, return nil
ReconFinish ==
    /\ workflow = "recon"
    /\ pc = "collect"
    /\ Return(NoError)
    /\ UNCHANGED <<progVars, loopVars, sinkVars, domain, cnt, subfinderErr, httpxErr,
                   ppc, cpc, discovered, hosts, probed, pending, reconVars, query>>

(***************************************************************************)
(* runWorkflow: the loop over Domains()                                    *)
(***************************************************************************)
\* w.Run(domain, s, opts) is entered with fresh locals
CallRun ==
    /\ pc = "idle"
    /\ runs < MaxRuns
    /\ di <= Len(Domains(scope))
    /\ domain' = Domains(scope)[di]
    /\ runs' = runs + 1
    /\ pc' = "precheck"
    /\ ret' = NoError
    /\ cnt' = ZeroCounters
    /\ textFile' = "nil"
    /\ jsonFile' = "nil"
    /\ subfinderErr' = NoError
    /\ httpxErr' = NoError
    /\ fifo' = NoFifo
    /\ ppc' = "none"
    /\ cpc' = "none"
    /\ discovered' = <<>>
    /\ hosts' = <<>>
    /\ probed' = <<>>
    /\ pending' = <<>>
    /\ seen' = {}
    /\ bases' = {}
    /\ base' = ""
    /\ sfRuns' = <<>>
    /\ UNCHANGED <<progVars, di, sinkVars, query>>

\* RunReturns with a break out of the loop on an error
RunReturnsStopsOnError ==
    /\ pc = "returned"
    /\ di' = IF ret # NoError THEN Len(Domains(scope)) + 1 ELSE di + 1
    /\ pc' = "idle"
    /\ UNCHANGED <<progVars, runs, sinkVars, domain, ret, cnt, textFile, jsonFile,
                   subfinderErr, httpxErr, taskVars, reconVars, query>>

\* Run has returned: the error, if any, is printed and the loop goes on
RunReturns ==
    /\ pc = "returned"
    /\ di' = di + 1
    /\ pc' = "idle"
    /\ UNCHANGED <<progVars, runs, sinkVars, domain, ret, cnt, textFile, jsonFile,
                   subfinderErr, httpxErr, taskVars, reconVars, query>>

\* the same command is run again on the same output files
RunAgain ==
    /\ pc = "idle"
    /\ runs < MaxRuns
    /\ di > Len(Domains(scope))
    /\ di' = 1
    /\ UNCHANGED <<progVars, runs, sinkVars, frameVars, taskVars, reconVars, query>>

(***************************************************************************)
(* Direct calls of the scope functions                                     *)
(***************************************************************************)
Hosts ==
    { "example.com", "sub.example.com", "admin.example.com", "api.example.com",
      "evilexample.com", "example.com.evil.com", "evil.com", "w.a.io", "x.b.io",
      "10.0.0.5", "10.0.0.7", "10.0.1.7" }

Schemes == {"", "http://", "https://"}

Ports == {"", ":8080"}

Paths == {"", "/", "/path/to/page", "/a:b", "/?u=http://sub.example.com"}

UpperChar(c) == MapChar(c, Lower, Upper, PosIn(Lower, c))

RECURSIVE ToUpper(_)
ToUpper(s) == IF s = "" THEN "" ELSE UpperChar(Head(s)) \o ToUpper(Tail(s))

\* a well-formed target built from host h
Decorate(h, upper, scheme, port, path) ==
    scheme \o (IF upper THEN ToUpper(h) ELSE h) \o port \o path

CallIsInScope ==
    /\ pc = "scope"
    /\ \E h \in Hosts, upper \in BOOLEAN, scheme \in Schemes, port \in Ports,
          path \in Paths :
          query' = [op |-> "IsInScope", host |-> h,
                    target |-> Decorate(h, upper, scheme, port, path),
                    result |-> IsInScope(scope, Decorate(h, upper, scheme, port, path)),
                    hostResult |-> IsInScope(scope, h)]
    /\ pc' = "answered"
    /\ UNCHANGED <<progVars, loopVars, sinkVars, domain, ret, cnt, textFile, jsonFile,
                   subfinderErr, httpxErr, taskVars, reconVars>>

Alphabet == {"a", "b", ".", "*"}

RECURSIVE StringsUpTo(_)
StringsUpTo(n) ==
    IF n = 0 THEN {""}
    ELSE LET shorter == StringsUpTo(n - 1)
         IN shorter \cup {c \o t : c \in Alphabet, t \in shorter}

Patterns == {"*.a.b", "*.b", "*.", "a.b", "*.example.com", "*.Example.COM"}

MatchTargets ==
    StringsUpTo(MaxTargetLen) \cup Hosts
        \cup {"a.a.b", "ba.b", "a.b.a", "*.a.b", "B.a.b", "notexample.com"}

CallMatchPattern ==
    /\ pc = "scope"
    /\ \E p \in Patterns, t \in MatchTargets :
          query' = [op |-> "matchPattern", pattern |-> p, target |-> t,
                    result |-> matchPattern(p, t)]
    /\ pc' = "answered"
    /\ UNCHANGED <<progVars, loopVars, sinkVars, domain, ret, cnt, textFile, jsonFile,
                   subfinderErr, httpxErr, taskVars, reconVars>>

\* IP and CIDR rule texts as they appear in a scope
IpRulePatterns == {"10.0.0.0/24", "10.0.0.77/24", "10.0.0.5/32", "10.0.0.5", "10.0.0.4/30"}

\* targets around the networks above, and some that are no IPv4 address
IpTargets ==
    {"10.0.0." \o ToString(d) : d \in 0..255}
        \cup {"10.0.1.0", "10.0.1.5", "10.1.0.5", "9.255.255.255", "11.0.0.5",
              "example.com", "10.0.0", "10.0.0.256", "10.0.0.05", "10.0.0.5.1", ""}

\* the rule processLine stores for one include line
ruleFor(pattern) == processLine(EmptyScope, pattern).includes[1]

\* matchRule as IsInScope calls it, on the rule built from one scope line
CallMatchRule ==
    /\ pc = "scope"
    /\ \E p \in IpRulePatterns, t \in IpTargets :
          query' = [op |-> "matchRule", pattern |-> p, target |-> t,
                    result |-> matchRule(ruleFor(p), t, ParseIP(t))]
    /\ pc' = "answered"
    /\ UNCHANGED <<progVars, loopVars, sinkVars, domain, ret, cnt, textFile, jsonFile,
                   subfinderErr, httpxErr, taskVars, reconVars>>

\* scope sources given with --scope: direct strings and file paths
LoadInputs ==
    { "", "#only a comment", " , ", "-admin.example.com", "-a.b,-10.0.0.1",
      "*.example.com,-admin.example.com", "10.0.0.0/24,10.0.0.5,-10.0.0.7",
      "scope.txt", "./scopes/prod.txt" }

\* contents of scope files, one string per line
FileContents ==
    { <<>>,
      <<"# only comments", "">>,
      <<"", "  ">>,
      <<"-admin.example.com", "-10.0.0.5">>,
      <<"# This is a comment", "*.example.com  # inline comment", "",
        "# Another comment", "-admin.example.com">>,
      <<"10.0.0.0/24", "10.0.0.5", "a.b", "-10.0.0.4/30", "-*.c.d", "-10.0.0.9",
        "*.e.f">>,
      <<"example.com#prod", "-old.example.com\t# retired">> }

\* what the file system may hold at the path
Entries ==
    {MissingEntry, DirEntry, FileEntry(FALSE, <<>>, FALSE)}
        \cup {FileEntry(TRUE, lines, readErr) : lines \in FileContents, readErr \in BOOLEAN}

CallLoad ==
    /\ pc = "scope"
    /\ \E input \in LoadInputs, entry \in Entries :
          query' = [op |-> "Load", input |-> input, entry |-> entry,
                    result |-> Load(input, entry)]
    /\ pc' = "answered"
    /\ UNCHANGED <<progVars, loopVars, sinkVars, domain, ret, cnt, textFile, jsonFile,
                   subfinderErr, httpxErr, taskVars, reconVars>>

\* s.HasWildcard(target), with s.IsInScope(target) for comparison
CallHasWildcard ==
    /\ pc = "scope"
    /\ \E h \in Hosts, upper \in BOOLEAN :
          query' = [op |-> "HasWildcard",
                    target |-> IF upper THEN ToUpper(h) ELSE h,
                    result |-> HasWildcard(scope, IF upper THEN ToUpper(h) ELSE h),
                    inScope |-> IsInScope(scope, IF upper THEN ToUpper(h) ELSE h)]
    /\ pc' = "answered"
    /\ UNCHANGED <<progVars, loopVars, sinkVars, domain, ret, cnt, textFile, jsonFile,
                   subfinderErr, httpxErr, taskVars, reconVars>>

\* scope definitions with repeated, mixed-case, exact, IP and CIDR rules
DomainSources ==
    ScopeSources \cup
    { "*.example.com,API.example.com,example.com,10.0.0.1,*.Example.COM,-old.example.com",
      "b.io,10.0.0.0/24,*.a.io,B.IO,-*.b.io,a.io,*.b.io",
      "10.0.0.1,10.0.0.0/24,-x.a.io,*.a.io" }

\* s.Domains() of the scope loaded from a direct string
CallDomains ==
    /\ pc = "scope"
    /\ \E src \in DomainSources :
          query' = [op |-> "Domains", loaded |-> Load(src, MissingEntry).scope,
                    result |-> Domains(Load(src, MissingEntry).scope)]
    /\ pc' = "answered"
    /\ UNCHANGED <<progVars, loopVars, sinkVars, domain, ret, cnt, textFile, jsonFile,
                   subfinderErr, httpxErr, taskVars, reconVars>>

\* the JSON keys of the compact record and other keys of an httpx line
CompactKeys == {f.key : f \in ActiveResultFields}

OtherKeys == {"body", "header", "content_length", "words", "lines"}

\* the value httpx reports under a key when it has one
SampleOf(key) ==
    CASE key \in {"url"} -> "https://www.hackerone.com"
      [] key \in {"input", "host"} -> "www.hackerone.com"
      [] key = "port" -> "443"
      [] key = "scheme" -> "https"
      [] key = "status_code" -> 200
      [] key = "title" -> "HackerOne"
      [] key \in {"webserver", "cdn_name"} -> "cloudflare"
      [] key = "tech" -> <<"Cloudflare">>
      [] key = "cdn" -> TRUE
      [] key \in {"content_length", "words", "lines"} -> 12345
      [] OTHER -> "<html>big body</html>"

\* the value of a field of httpx_runner.Result: set for the keys in
\* present, the zero value otherwise
ValueOf(key, present) == IF key \in present THEN SampleOf(key) ELSE FieldOf(key).zero

\* an httpx_runner.Result with the fields of present set
httpxResult(present) ==
    [URL |-> ValueOf("url", present), Input |-> ValueOf("input", present),
     Host |-> ValueOf("host", present), Port |-> ValueOf("port", present),
     Scheme |-> ValueOf("scheme", present),
     StatusCode |-> ValueOf("status_code", present),
     Title |-> ValueOf("title", present), WebServer |-> ValueOf("webserver", present),
     Technologies |-> ValueOf("tech", present), CDN |-> ValueOf("cdn", present),
     CDNName |-> ValueOf("cdn_name", present), Body |-> SampleOf("body"),
     Err |-> FALSE]

\* json.Marshal(compactFromResult(r)), as OnResult computes it
CallCompactFromResult ==
    /\ pc = "scope"
    /\ \E present \in SUBSET CompactKeys :
          query' = [op |-> "compactFromResult", present |-> present, valid |-> TRUE,
                    result |-> Marshal(compactFromResult(httpxResult(present)))]
    /\ pc' = "answered"
    /\ UNCHANGED <<progVars, loopVars, sinkVars, domain, ret, cnt, textFile, jsonFile,
                   subfinderErr, httpxErr, taskVars, reconVars>>

\* the object of an httpx JSON line with the keys of present and of others
jsonObject(present, others) == [key \in present \cup others |-> SampleOf(key)]

\* compactResult(jsonLine) of a JSON line, or of a line that is no JSON
CallCompactResult ==
    /\ pc = "scope"
    /\ \/ \E present \in SUBSET CompactKeys, others \in {{}, OtherKeys} :
             query' = [op |-> "compactResult", present |-> present, valid |-> TRUE,
                       result |-> compactResult([json |-> TRUE,
                                    object |-> jsonObject(present, others)]).clean]
       \/ query' = [op |-> "compactResult", present |-> {}, valid |-> FALSE,
                    result |-> compactResult([json |-> FALSE, object |-> Nil]).clean]
    /\ pc' = "answered"
    /\ UNCHANGED <<progVars, loopVars, sinkVars, domain, ret, cnt, textFile, jsonFile,
                   subfinderErr, httpxErr, taskVars, reconVars>>

(***************************************************************************)
(* Specifications                                                          *)
(***************************************************************************)
\* narmol workflow <name> --scope <scope> [-o] [-oj]: the scope is loaded
\* (Load succeeded), the output files start empty
Init ==
    /\ scope \in {Load(src, MissingEntry).scope : src \in ScopeSources}
    /\ workflow \in WorkflowNames
    /\ opts \in OutputChoices
    /\ di = 1
    /\ runs = 0
    /\ textOut = <<>>
    /\ jsonOut = <<>>
    /\ console = <<>>
    /\ pc = "idle"
    /\ domain = ""
    /\ FreshFrame
    /\ query = NoQuery

Next ==
    \/ CallRun
    \/ RunReturns
    \/ RunAgain
    \/ ActivePrecheck
    \/ ActiveMkfifo
    \/ ActiveOpenOutputs
    \/ ActiveStartTasks
    \/ ConsumerSetup
    \/ FifoRendezvous
    \/ ProducerOpenFails
    \/ ConsumerCloseUnblock
    \/ ProducerNewRunner
    \/ ProducerResultCallback
    \/ ProducerEnumerationReturns
    \/ ConsumerRead
    \/ ConsumerEOF
    \/ ConsumerOnResult
    \/ ConsumerDone
    \/ ActiveJoin
    \/ SeqPrecheck
    \/ SeqNewRunner
    \/ SeqResultCallback
    \/ SeqEnumerationReturns
    \/ SeqOpenOutputs
    \/ SeqHttpxSetup
    \/ SeqOnResult
    \/ SeqFinish
    \/ ReconPrecheck
    \/ ReconOpenOutputs
    \/ ReconNewRunner
    \/ ReconExactDomain
    \/ ReconResultCallback
    \/ ReconEnumerationReturns
    \/ ReconRecursiveNext
    \/ ReconRecursiveCallback
    \/ ReconRecursiveReturns
    \/ ReconGauInit
    \/ ReconGauCollect
    \/ ReconFinish

Spec == Init /\ [][Next]_vars

(***************************************************************************)
(* The streaming Run under fair scheduling of its three goroutines         *)
(***************************************************************************)
LiveInit == Init /\ workflow = "active"

\* the steps of the goroutine that called Run, after its scope checks
MainTask ==
    \/ ActiveMkfifo
    \/ ActiveOpenOutputs
    \/ ActiveStartTasks
    \/ ActiveJoin

\* the steps of the subfinder goroutine that the scheduler and a returning
\* Discovery collaborator bring about; a failing open is not among them,
\* nor is any number of reports before the enumeration returns
ProducerTask ==
    \/ FifoRendezvous
    \/ ProducerNewRunner
    \/ ProducerEnumerationReturns

\* the steps of the httpx goroutine that the scheduler and a returning
\* Probe collaborator bring about
ConsumerTask ==
    \/ ConsumerSetup
    \/ FifoRendezvous
    \/ ConsumerCloseUnblock
    \/ ConsumerRead
    \/ ConsumerEOF
    \/ ConsumerOnResult
    \/ ConsumerDone

LiveNext ==
    \/ CallRun
    \/ RunReturns
    \/ RunAgain
    \/ ActivePrecheck
    \/ ActiveMkfifo
    \/ ActiveOpenOutputs
    \/ ActiveStartTasks
    \/ ConsumerSetup
    \/ FifoRendezvous
    \/ ProducerOpenFails
    \/ ConsumerCloseUnblock
    \/ ProducerNewRunner
    \/ ProducerResultCallback
    \/ ProducerEnumerationReturns
    \/ ConsumerRead
    \/ ConsumerEOF
    \/ ConsumerOnResult
    \/ ConsumerDone
    \/ ActiveJoin

LiveSpec ==
    /\ LiveInit
    /\ [][LiveNext]_vars
    /\ WF_vars(MainTask)
    /\ WF_vars(ProducerTask)
    /\ WF_vars(ConsumerTask)

\* the scope functions called directly on a loaded scope
ScopeInit ==
    /\ scope \in {Load(src, MissingEntry).scope : src \in ScopeSources}
    /\ workflow = "none"
    /\ opts = [TextFile |-> "", JSONFile |-> ""]
    /\ di = 1
    /\ runs = 0
    /\ textOut = <<>>
    /\ jsonOut = <<>>
    /\ console = <<>>
    /\ pc = "scope"
    /\ domain = ""
    /\ FreshFrame
    /\ query = NoQuery

ScopeNext ==
    \/ CallIsInScope
    \/ CallMatchPattern
    \/ CallMatchRule
    \/ CallLoad
    \/ CallHasWildcard
    \/ CallDomains
    \/ CallCompactFromResult
    \/ CallCompactResult

ScopeSpec == ScopeInit /\ [][ScopeNext]_vars


(***************************************************************************)
(* Vocabulary of the properties                                            *)
(***************************************************************************)
ActiveKinds == {"active", "activeSequential"}

IsPrefix(a, b) == Len(a) <= Len(b) /\ SubSeq(b, 1, Len(a)) = a

IsSuffixSeq(a, b) == Len(a) <= Len(b) /\ SubSeq(b, Len(b) - Len(a) + 1, Len(b)) = a

\* the dot-separated labels of a name, letter case folded
Labels(name) == Split(ToLower(name), ".")

\* some rule of rules matches raw once raw is normalized
AnyRuleMatches(rules, raw) ==
    \E i \in 1..Len(rules) :
       matchRule(rules[i], normalizeTarget(raw), ParseIP(normalizeTarget(raw)))

\* the lines the Run call number n wrote to one destination
LinesOfRun(out, n) == {i \in 1..Len(out) : out[i].run = n}

\* the current Run call has written nothing to any destination
SinkUntouched ==
    /\ LinesOfRun(console, runs) = {}
    /\ LinesOfRun(textOut, runs) = {}
    /\ LinesOfRun(jsonOut, runs) = {}

\* Run is past its first statements, or has returned to runWorkflow
PastPrecheck == runs > 0 /\ pc # "precheck"

GatePasses == IsInScope(scope, domain) /\ HasWildcard(scope, domain)

RunsOrdered(out) == \A i, j \in 1..Len(out) : i < j => out[i].run <= out[j].run

(***************************************************************************)
(* The two variants of ActiveWorkflow.Run on the same inputs (EquivSpec):  *)
(* the streaming Run is called, its outcome is recorded, and then the      *)
(* non-streaming Run is called with the same scope, domain and options     *)
(* and with collaborators that behave the same way                         *)
(***************************************************************************)
\* what subfinder reports during one enumeration
ReportSeqs == UNION {[1..n -> Candidates] : n \in 0..MaxDiscovered}

HttpxOutcomes == {"ok", "httpx options validation failed", "could not create httpx runner"}

\* the behaviour of the collaborators: NewRunner of subfinder, the hosts it
\* reports, the result of its enumeration, the setup of httpx, and the
\* targets whose probe fails
Scenarios ==
    {[op |-> "equiv", newRunner |-> n, reports |-> r, enumeration |-> e,
      httpx |-> h, failing |-> f, streaming |-> Nil] :
        n \in BOOLEAN, r \in ReportSeqs, e \in BOOLEAN, h \in HttpxOutcomes,
        f \in SUBSET {TrimSpace(raw) : raw \in Candidates}}

\* a scenario without settings that no call can observe
Observable(q) ==
    /\ ~q.newRunner => q.reports = <<>> /\ q.enumeration
    /\ q.httpx # "ok" => q.failing = {}
    /\ q.failing \subseteq {TrimSpace(q.reports[i]) : i \in 1..Len(q.reports)}
    /\ \A h \in q.failing : IsInScope(scope, h)

EquivInit ==
    /\ scope \in {Load(src, MissingEntry).scope : src \in ScopeSources}
    /\ workflow = "active"
    /\ opts \in OutputChoices
    /\ di = 1
    /\ runs = 0
    /\ textOut = <<>>
    /\ jsonOut = <<>>
    /\ console = <<>>
    /\ pc = "idle"
    /\ domain = ""
    /\ FreshFrame
    /\ query \in {q \in Scenarios : Observable(q)}

\* the streaming Run has returned: what it did is recorded and the
\* non-streaming Run is set up on the same command line and empty outputs
SwitchVariant ==
    /\ workflow = "active"
    /\ pc = "returned"
    /\ query' = [query EXCEPT !.streaming =
                    [ret |-> ret, cnt |-> cnt, probed |-> probed,
                     console |-> console, textOut |-> textOut, jsonOut |-> jsonOut]]
    /\ workflow' = "activeSequential"
    /\ pc' = "idle"
    /\ runs' = 0
    /\ textOut' = <<>>
    /\ jsonOut' = <<>>
    /\ console' = <<>>
    /\ UNCHANGED <<scope, opts, di, domain, ret, cnt, textFile, jsonFile, subfinderErr,
                   httpxErr, taskVars, reconVars>>

\* the actions of the two variants with the outcomes the scenario gives;
\* the FIFO and the output files are created and opened without error
EquivMkfifo == ActiveMkfifo /\ pc' = "openOutputs"

EquivOpenOutputs == ActiveOpenOutputs /\ pc' = "startTasks"

EquivConsumerSetup ==
    ConsumerSetup /\ httpxErr' = (IF query.httpx = "ok" THEN NoError ELSE query.httpx)

EquivProducerNewRunner ==
    ProducerNewRunner /\ (subfinderErr' = NoError) = query.newRunner

EquivProducerResultCallback ==
    /\ Len(discovered) < Len(query.reports)
    /\ ProducerResultCallbackOf(query.reports[Len(discovered) + 1])

EquivProducerEnumerationReturns ==
    /\ Len(discovered) = Len(query.reports)
    /\ ProducerEnumerationReturns
    /\ (subfinderErr' = NoError) = query.enumeration

EquivConsumerOnResult ==
    \E i \in 1..Len(pending) : ConsumerOnResultOf(i, pending[i] \in query.failing)

EquivSeqNewRunner == SeqNewRunner /\ (pc' = "enumerate") = query.newRunner

EquivSeqResultCallback ==
    /\ Len(discovered) < Len(query.reports)
    /\ SeqResultCallbackOf(query.reports[Len(discovered) + 1])

EquivSeqEnumerationReturns ==
    /\ Len(discovered) = Len(query.reports)
    /\ SeqEnumerationReturns
    /\ (ret' = "subfinder enumeration failed") = ~query.enumeration

EquivSeqOpenOutputs == SeqOpenOutputs /\ pc' = "httpxSetup"

EquivSeqHttpxSetup ==
    SeqHttpxSetup /\ (IF query.httpx = "ok" THEN pc' = "probe" ELSE ret' = query.httpx)

EquivSeqOnResult ==
    \E i \in 1..Len(pending) : SeqOnResultOf(i, pending[i] \in query.failing)

EquivNext ==
    \/ CallRun
    \/ SwitchVariant
    \/ ActivePrecheck
    \/ EquivMkfifo
    \/ EquivOpenOutputs
    \/ ActiveStartTasks
    \/ EquivConsumerSetup
    \/ FifoRendezvous
    \/ ConsumerCloseUnblock
    \/ EquivProducerNewRunner
    \/ EquivProducerResultCallback
    \/ EquivProducerEnumerationReturns
    \/ ConsumerRead
    \/ ConsumerEOF
    \/ EquivConsumerOnResult
    \/ ConsumerDone
    \/ ActiveJoin
    \/ SeqPrecheck
    \/ EquivSeqNewRunner
    \/ EquivSeqResultCallback
    \/ EquivSeqEnumerationReturns
    \/ EquivSeqOpenOutputs
    \/ EquivSeqHttpxSetup
    \/ EquivSeqOnResult
    \/ SeqFinish

EquivSpec == EquivInit /\ [][EquivNext]_vars

(***************************************************************************)
(* Properties of package scope (ScopeSpec)                                 *)
(***************************************************************************)
\* C1: exclusion dominance.  Whenever the normalized target of an IsInScope
\* call matches at least one exclude rule, the call returns false, whatever
\* include rules match the same target.
C1_ExclusionDominance ==
    query.op = "IsInScope" /\ AnyRuleMatches(scope.excludes, query.target)
        => query.result = FALSE

\* an exact include and a wildcard exclude both match, the answer is false
C1_Witness ==
    /\ query.op = "IsInScope"
    /\ AnyRuleMatches(scope.excludes, query.target)
    /\ AnyRuleMatches(scope.includes, query.target)
    /\ query.host = "api.example.com"
    /\ query.result = FALSE

\* C4: wildcard matching is on a full label boundary.  A rule "*.base"
\* matches a target exactly when the labels of base are the last labels of
\* the target (the target is base, or ends with "." followed by base),
\* letter case aside; a target that only ends with the characters of base, or
\* holds base as a non-final part, is not matched.
C4_LabelBoundary ==
    query.op = "matchPattern" /\ HasPrefix(query.pattern, "*.")
        => /\ query.result
                <=> IsSuffixSeq(Labels(TrimPrefix(query.pattern, "*.")),
                                Labels(query.target))
           /\ ToLower(query.pattern) = "*.example.com"
                 /\ query.target \in {"evilexample.com", "notexample.com",
                                      "example.com.evil.com"}
                => ~query.result

\* a target ending with the characters of base is rejected
C4_Witness ==
    /\ query.op = "matchPattern"
    /\ query.pattern = "*.example.com"
    /\ query.target = "evilexample.com"
    /\ query.result = FALSE

\* C5: normalization invariance.  For a target built from a host by
\* changing letter case, prepending a scheme, appending a port and appending
\* a path, IsInScope of the target equals IsInScope of the host.
C5_NormalizationInvariance ==
    query.op = "IsInScope" => query.result = query.hostResult

\* the address as one number (addresses below 128.0.0.0)
IPValue(ip) == ((ip[1] * 256 + ip[2]) * 256 + ip[3]) * 256 + ip[4]

\* the text is an IPv4 address of the network addr/ones
InNetwork(text, addr, ones) ==
    /\ ParseIP(text) # Nil
    /\ IPValue(ParseIP(text)) \div 2^(32 - ones) = IPValue(ParseIP(addr)) \div 2^(32 - ones)

\* C11: CIDR and IP rules.  A CIDR rule matches a target exactly when the
\* target parses as an IP address of the network (a /24 admits the 256
\* addresses of its range, no other address and no domain name); a single-IP
\* rule matches exactly its address; a /32 rule and the single-IP rule for
\* the same address give the same answer on every target.
C11_CidrAndIpRules ==
    query.op = "matchRule"
        => /\ Contains(query.pattern, "/")
                => (query.result
                      <=> InNetwork(query.target, Split(query.pattern, "/")[1],
                                    Dtoi(Split(query.pattern, "/")[2])))
           /\ ~Contains(query.pattern, "/")
                => (query.result
                      <=> ParseIP(query.target) # Nil
                            /\ ParseIP(query.target) = ParseIP(query.pattern))
           /\ HasSuffix(query.pattern, "/32")
                => query.result
                     = matchRule(ruleFor(Split(query.pattern, "/")[1]), query.target,
                                 ParseIP(query.target))

\* the last address of a /24 is admitted
C11_Witness ==
    /\ query.op = "matchRule"
    /\ query.pattern = "10.0.0.77/24"
    /\ query.target = "10.0.0.255"
    /\ query.result = TRUE

\* the lines Load hands to processLine
LinesRead(input, entry) ==
    IF entry.kind = "file" THEN entry.lines ELSE Split(input, ",")

\* a line that is blank, a comment, or an exclusion
NoIncludeLine(line) ==
    \/ TrimSpace(line) = ""
    \/ Head(TrimSpace(line)) \in {"#", "-"}

\* C12: Load returns an error and no Scope whenever parsing yields no
\* include rule (empty input, only comments, only blank lines, only
\* exclusions); a Scope that Load returns has at least one include rule,
\* and so has the scope every workflow runs with.
C12_LoadNeedsInclude ==
    /\ Len(scope.includes) >= 1
    /\ query.op = "Load"
         => /\ (query.result.scope = Nil) <=> (query.result.err # NoError)
            /\ query.result.scope # Nil => Len(query.result.scope.includes) >= 1
            /\ (\A i \in 1..Len(LinesRead(query.input, query.entry)) :
                   NoIncludeLine(LinesRead(query.input, query.entry)[i]))
                 => query.result.scope = Nil

\* a readable file with only comments and blank lines is refused
C12_Witness ==
    /\ query.op = "Load"
    /\ query.entry = FileEntry(TRUE, <<"# only comments", "">>, FALSE)
    /\ query.result = Returned(Nil, "scope contains no inclusion rules")

\* the source cannot be read as a file
Unreadable(entry) ==
    \/ entry.kind \in {"missing", "dir"}
    \/ entry.kind = "file" /\ (~entry.openable \/ entry.readErr)

\* C13: when Load is given a file path that cannot be read (missing file,
\* directory, unreadable file), it fails with an error and returns no Scope.
C13_UnreadableFileFails ==
    query.op = "Load" /\ query.input \in {"scope.txt", "./scopes/prod.txt"}
                      /\ Unreadable(query.entry)
        => query.result.scope = Nil /\ query.result.err # NoError

\* the text of a line before its first "#"
BeforeHash(line) ==
    IF Contains(line, "#") THEN SubSeq(line, 1, Index(line, "#") - 1) ELSE line

KindOfText(text) ==
    IF ParseCIDR(text) # Nil THEN "cidr"
    ELSE IF ParseIP(text) # Nil THEN "ip"
    ELSE "domain"

KindOfRule(r) ==
    IF r.cidr # Nil THEN "cidr" ELSE IF r.ip # Nil THEN "ip" ELSE "domain"

\* what a line stands for when everything from "#" on is ignored
LineMeaning(line) ==
    [blank |-> TrimSpace(BeforeHash(line)) = "",
     exclude |-> HasPrefix(TrimSpace(BeforeHash(line)), "-"),
     pattern |-> TrimPrefix(TrimSpace(BeforeHash(line)), "-"),
     kind |-> KindOfText(TrimPrefix(TrimSpace(BeforeHash(line)), "-"))]

IsIncludeMeaning(m) == ~m.blank /\ ~m.exclude

IsExcludeMeaning(m) == ~m.blank /\ m.exclude

Meanings(lines) == [i \in 1..Len(lines) |-> LineMeaning(lines[i])]

\* pattern and kind of each entry of a sequence of rules or meanings
PatternsAndKinds(rules) ==
    [i \in 1..Len(rules) |->
        [pattern |-> rules[i].pattern,
         kind |-> IF "kind" \in DOMAIN rules[i] THEN rules[i].kind
                  ELSE KindOfRule(rules[i])]]

\* C14: rule parsing.  For every line the text from "#" on is ignored, blank
\* and comment-only lines give no rule, a leading "-" makes an exclusion and
\* is removed, the rest is classified CIDR, then IP, then domain pattern;
\* includes and excludes keep the order of the input.
C14_RuleParsing ==
    query.op = "Load" /\ query.result.scope # Nil
        => /\ PatternsAndKinds(query.result.scope.includes)
                = PatternsAndKinds(SelectSeq(Meanings(LinesRead(query.input, query.entry)),
                                             IsIncludeMeaning))
           /\ PatternsAndKinds(query.result.scope.excludes)
                = PatternsAndKinds(SelectSeq(Meanings(LinesRead(query.input, query.entry)),
                                             IsExcludeMeaning))

(***************************************************************************)
(* Properties of the workflows (Spec)                                      *)
(***************************************************************************)
\* C2: every candidate handed to the Probe collaborator is in scope.  In the
\* active pipeline everything written to the FIFO, read from it by httpx,
\* or appended to the host list satisfies IsInScope.
C2_ProbedInScope ==
    workflow \in ActiveKinds
        => \A x \in Elements(fifo.buf) \cup Elements(hosts)
                       \cup Elements(probed) \cup Elements(pending) :
              IsInScope(scope, x)

\* a candidate was rejected and another one reached httpx through the FIFO
C2_Witness ==
    /\ workflow = "active"
    /\ probed # <<>>
    /\ \E i \in 1..Len(discovered) : Filter(discovered[i]) = "excluded"

\* C3: precondition gate.  When Run of the active workflow is called with a
\* domain that is not in scope or has no wildcard rule, Run returns an error
\* and nothing else happened: no Discovery or Probe call, no FIFO, no output
\* destination opened or written.
C3_PreconditionGate ==
    workflow \in ActiveKinds /\ PastPrecheck /\ ~GatePasses
        => /\ pc \in {"returned", "idle"}
           /\ ret \in {"domain is not in scope",
                       "active workflow requires a wildcard scope"}
           /\ ppc = "none" /\ cpc = "none"
           /\ discovered = <<>> /\ hosts = <<>> /\ probed = <<>> /\ pending = <<>>
           /\ fifo = NoFifo
           /\ textFile = "nil" /\ jsonFile = "nil"
           /\ SinkUntouched

\* Run was refused for a domain that is in scope but has no wildcard rule
C3_Witness ==
    /\ workflow = "active"
    /\ pc = "returned"
    /\ IsInScope(scope, domain)
    /\ ~HasWildcard(scope, domain)
    /\ ret = "active workflow requires a wildcard scope"

C7_ZeroResultFailure ==
    workflow \in ActiveKinds /\ pc = "returned" /\ GatePasses /\ cnt.inScope = 0
        => ret # NoError /\ SinkUntouched

\* both tasks ended without error, every reported candidate was rejected
C7_Witness ==
    /\ workflow = "active"
    /\ pc = "returned"
    /\ discovered # <<>>
    /\ cnt.inScope = 0
    /\ subfinderErr = NoError /\ httpxErr = NoError
    /\ ret = "no subdomains remaining after scope filtering"

\* C8: error precedence of the streaming Run once both tasks finished: the
\* producer's error if there is one, else the consumer's error if there is
\* one, else the zero-result error if inScope is 0, else nil.
C8_ErrorPrecedence ==
    workflow = "active" /\ pc = "returned" /\ ppc = "done" /\ cpc = "done"
        => /\ subfinderErr # NoError => ret = subfinderErr
           /\ subfinderErr = NoError /\ httpxErr # NoError => ret = httpxErr
           /\ subfinderErr = NoError /\ httpxErr = NoError /\ cnt.inScope = 0
                 => ret = "no subdomains remaining after scope filtering"
           /\ subfinderErr = NoError /\ httpxErr = NoError /\ cnt.inScope > 0
                 => ret = NoError

\* producer and consumer both failed, the producer's error was returned
C8_Witness ==
    /\ workflow = "active"
    /\ pc = "returned"
    /\ subfinderErr = "could not create subfinder runner"
    /\ httpxErr # NoError
    /\ ret = subfinderErr

\* C9: a setup error is run-terminal in every workflow.  When the Discovery
\* collaborator cannot be created or its enumeration returns an error, Run
\* returns a non-nil error.
C9_SetupErrorTerminal ==
    pc = "returned"
       /\ subfinderErr \in {"could not create subfinder runner",
                            "subfinder enumeration failed"}
        => ret # NoError

\* C10: append-only outputs.  No step shortens or rewrites an output file:
\* the content before is a prefix of the content after, and the lines of an
\* earlier Run call precede the lines of a later one.
C10_AppendOnly ==
    [][/\ IsPrefix(textOut, textOut')
       /\ IsPrefix(jsonOut, jsonOut')
       /\ RunsOrdered(textOut')
       /\ RunsOrdered(jsonOut')]_vars

\* a batch over two domains: the text file holds lines of both Run calls
C10_Witness ==
    /\ Len(Domains(scope)) = 2
    /\ LinesOfRun(textOut, 1) # {}
    /\ LinesOfRun(textOut, 2) # {}
    /\ LinesOfRun(jsonOut, 1) # {}
    /\ LinesOfRun(jsonOut, 2) # {}

\* the reports of Discovery that IsInScope accepts, and those it rejects
AcceptedReports == {i \in 1..Len(discovered) : IsInScope(scope, discovered[i])}

RejectedReports == {i \in 1..Len(discovered) : ~IsInScope(scope, discovered[i])}

\* Discovery of the active workflow has finished
ProducerFinished ==
    \/ workflow = "active" /\ ppc = "done"
    \/ workflow = "activeSequential" /\ pc \in {"openOutputs", "httpxSetup", "probe"}

\* candidates handed on towards httpx: lines put into the FIFO, or the host list
Forwarded ==
    IF workflow = "active" THEN Len(probed) + Len(fifo.buf) ELSE Len(hosts)

\* C15: pipeline counters.  When the producer has finished, inScope is the
\* number of reported candidates IsInScope accepts and the number forwarded
\* to probing, excluded is the number IsInScope rejects, total is the number
\* reported, and total = inScope + excluded.
C15_PipelineCounters ==
    ProducerFinished
        => /\ cnt.totalFound = Len(discovered)
           /\ cnt.inScope = Cardinality(AcceptedReports)
           /\ cnt.excluded = Cardinality(RejectedReports)
           /\ cnt.totalFound = cnt.inScope + cnt.excluded
           /\ httpxErr = NoError => Forwarded = cnt.inScope

\* 1 while a Run call is in progress, else 0
InRun == IF pc = "idle" THEN 0 ELSE 1

\* C17: batch isolation.  Over the list Domains(), Run is called once for
\* every domain, in list order, whatever the earlier calls returned: the
\* call in progress is the one for Domains()[di], and the number of calls
\* made always is the number of domains passed in the loop.
C17_BatchIsolation ==
    /\ pc # "idle" => di \in 1..Len(Domains(scope)) /\ domain = Domains(scope)[di]
    /\ (runs - (di - 1) - InRun) % Len(Domains(scope)) = 0
    /\ di \in 1..(Len(Domains(scope)) + 1)

\* the Run call for the first domain failed, the one for the second
\* domain was made and returned nil
C17_Witness ==
    /\ Len(Domains(scope)) = 2
    /\ ~IsInScope(scope, Domains(scope)[1])
    /\ runs = 2
    /\ pc = "returned"
    /\ domain = Domains(scope)[2]
    /\ ret = NoError

\* OnResult is called with a result that carries an error
FailedResultStep ==
    \E i \in 1..Len(pending) :
        ConsumerOnResultOf(i, TRUE) \/ SeqOnResultOf(i, TRUE)

\* C18: per-item isolation.  A probe result that carries an error writes to
\* no output destination, leaves the active counter alone, leaves the
\* probing where it was (the other results are still to be processed) and
\* changes none of the values Run's return is computed from.
C18_PerItemIsolation ==
    [][FailedResultStep
         => /\ UNCHANGED <<console, textOut, jsonOut>>
            /\ cnt'.activeCount = cnt.activeCount
            /\ Len(pending') = Len(pending) - 1
            /\ UNCHANGED <<pc, cpc, ppc>>
            /\ UNCHANGED <<ret, subfinderErr, httpxErr, cnt>>]_vars

\* one result failed, another was written, and Run returned nil
C18_Witness ==
    /\ workflow \in ActiveKinds
    /\ pc = "returned"
    /\ ret = NoError
    /\ cnt.activeCount >= 1
    /\ Len(probed) > cnt.activeCount
    /\ pending = <<>>

\* the hosts handed to subfinder by the recursive pass of the call in progress
Seeds == bases \cup (IF pc = "recursiveEnumerate" THEN {base} ELSE {})

Reseeded == {sfRuns[i].Domain : i \in 2..Len(sfRuns)}

\* the first pass of the call in progress has returned its hosts
FirstPassReturned ==
    /\ workflow = "recon"
    /\ pc \in {"recursive", "recursiveEnumerate", "gau", "collect", "returned"}
    /\ Len(sfRuns) >= 1
    /\ subfinderErr = NoError

FoundByExpansion ==
    {v \in seen : \E raw \in DeeperCandidates : TrimSpace(raw) = v} \ Elements(hosts)

\* what holds of the subfinder options built so far by the call in progress
BoundedRuns ==
    workflow = "recon" /\ Len(sfRuns) >= 1
        => /\ sfRuns[1] = sfOptions(domain, FirstPassTime)
           /\ \A i \in 2..Len(sfRuns) :
                 /\ sfRuns[i].MaxEnumerationTime < sfRuns[1].MaxEnumerationTime
                 /\ sfRuns[i].Domain \in Elements(hosts)
                 /\ sfRuns[i].Domain \notin FoundByExpansion
                 /\ \A j \in 2..Len(sfRuns) :
                       sfRuns[i].Domain = sfRuns[j].Domain => i = j
           /\ Seeds \cap FoundByExpansion = {}

\* the set of bases is filled once, when the first pass returns, and only
\* shrinks afterwards
BasesOnlyShrink ==
    \/ bases' \subseteq bases
    \/ pc = "enumerate" /\ bases = {} /\ pc' = "recursive"

\* C20: bounded expansion.  For one top-level domain there is one pass
\* over the seeds found by the first pass: the set of seeds is fixed when
\* the first pass returns and only shrinks afterwards, subfinder is run at
\* most once for each seed, with a shorter enumeration time than the first
\* pass, and no value found by the recursive pass is ever a seed.
C20_BoundedExpansion == []BoundedRuns /\ [][BasesOnlyShrink]_vars

\* the recursive pass is over; it found a host with three labels that the
\* first pass had not found, and that host has not been enumerated
C20_Witness ==
    /\ workflow = "recon"
    /\ pc = "gau"
    /\ Len(sfRuns) = 2
    /\ \E v \in FoundByExpansion :
          /\ Count(v, ".") >= 2
          /\ v \notin Reseeded

(***************************************************************************)
(* Properties of the two variants of the active workflow (EquivSpec)       *)
(***************************************************************************)
\* both variants have returned
EquivDone == query.op = "equiv" /\ workflow = "activeSequential" /\ pc = "returned"

\* number of entries of seq equal to x
CountIn(seq, x) == Cardinality({i \in 1..Len(seq) : seq[i] = x})

\* the same lines the same number of times, in any order
SameLines(a, b) ==
    /\ Len(a) = Len(b)
    /\ \A x \in Elements(a) : CountIn(a, x) = CountIn(b, x)

SameCounters(c, d) ==
    /\ c.totalFound = d.totalFound
    /\ c.inScope = d.inScope
    /\ c.excluded = d.excluded

SameSink(s) ==
    /\ SameLines(console, s.console)
    /\ SameLines(textOut, s.textOut)
    /\ SameLines(jsonOut, s.jsonOut)

\* the enumeration of subfinder fails after it reported hosts in scope to
\* an httpx that was set up
FailsAfterForwarding ==
    /\ query.newRunner
    /\ ~query.enumeration
    /\ query.httpx = "ok"
    /\ cnt.inScope > 0

\* C16: the non-streaming variant is equivalent to the streaming one.  For
\* every scope, sequence of reported hosts and behaviour of the
\* collaborators, both return an error or both return nil, both end with
\* the same totalFound, inScope and excluded, both hand the same targets to
\* httpx and both write the same results.
C16_VariantsEquivalent ==
    EquivDone
        => /\ (ret = NoError) = (query.streaming.ret = NoError)
           /\ SameCounters(cnt, query.streaming.cnt)
           /\ probed = query.streaming.probed
           /\ SameSink(query.streaming)

\* C16 (amended): both variants return an error or both return nil, and
\* both end with the same totalFound, inScope and excluded.  They hand the
\* same targets to httpx and write the same results unless the enumeration
\* of subfinder fails after hosts in scope were reported: then the
\* streaming variant has probed these hosts and the non-streaming variant
\* none.  The error is the same one unless no host is in scope and the
\* setup of httpx fails.
C16_EquivalentUnlessEnumerationFails ==
    EquivDone
        => /\ (ret = NoError) = (query.streaming.ret = NoError)
           /\ SameCounters(cnt, query.streaming.cnt)
           /\ IF FailsAfterForwarding
              THEN probed = <<>> /\ query.streaming.probed = hosts
              ELSE probed = query.streaming.probed /\ SameSink(query.streaming)
           /\ ret # query.streaming.ret
                 => /\ cnt.inScope = 0
                    /\ query.httpx # "ok"
                    /\ ret = "no subdomains remaining after scope filtering"
                    /\ query.streaming.ret = query.httpx

\* both variants returned nil after two hosts were reported, one of them
\* not in scope, and the probe of the other wrote a result
C16_Witness ==
    /\ EquivDone
    /\ ret = NoError
    /\ cnt.totalFound = 2
    /\ cnt.excluded = 1
    /\ probed # <<>>
    /\ cnt.activeCount = 1
    /\ query.streaming.cnt.activeCount = 1

(***************************************************************************)
(* Properties of HasWildcard and Domains (ScopeSpec)                       *)
(***************************************************************************)
\* the text after "*." of a wildcard pattern, as the rule has it
BaseOf(pattern) == SubSeq(pattern, 3, Len(pattern))

\* name is the domain parent or lies below it
AtOrBelow(name, parent) == name = parent \/ HasSuffix(name, "." \o parent)

\* some wildcard include rule of s has a base at or above target
WildcardAbove(s, target) ==
    \E i \in 1..Len(s.includes) :
        /\ HasPrefix(s.includes[i].pattern, "*.")
        /\ AtOrBelow(target, BaseOf(s.includes[i].pattern))

IsDomainRule(r) == r.ip = Nil /\ r.cidr = Nil

\* the root domain a domain rule stands for
RootOf(r) == ToLower(TrimPrefix(r.pattern, "*."))

\* the roots of the domain rules of rules, rule by rule
Roots(rules) ==
    [i \in 1..Len(SelectSeq(rules, IsDomainRule)) |->
        RootOf(SelectSeq(rules, IsDomainRule)[i])]

\* index of the first entry of seq equal to x
FirstAt(seq, x) == MinOr0({i \in 1..Len(seq) : seq[i] = x})

\* C22: Domains() returns the roots of the domain include rules (the
\* pattern in lower case without a leading "*."), each distinct root once,
\* in the order of the first occurrences; IP and CIDR include rules and
\* the exclude rules contribute nothing.
C22_DomainsMeaning ==
    query.op = "Domains"
        => /\ Elements(query.result) = Elements(Roots(query.loaded.includes))
           /\ Cardinality(Elements(query.result)) = Len(query.result)
           /\ \A i, j \in 1..Len(query.result) :
                 i < j => FirstAt(Roots(query.loaded.includes), query.result[i])
                            < FirstAt(Roots(query.loaded.includes), query.result[j])

\* a scope with an address rule, an exclude rule and a root that several
\* domain rules stand for
C22_Witness ==
    /\ query.op = "Domains"
    /\ Len(query.result) >= 2
    /\ Len(query.result) < Len(Roots(query.loaded.includes))
    /\ Len(Roots(query.loaded.includes)) < Len(query.loaded.includes)
    /\ query.loaded.excludes # <<>>

\* C29: Domains/HasWildcard consistency.  Every domain that Domains()
\* derives from a wildcard include rule, whatever the letter case of the
\* rule text, satisfies HasWildcard.
C29_DomainsHaveWildcard ==
    query.op = "Domains"
        => \A i \in 1..Len(query.loaded.includes) :
              IsDomainRule(query.loaded.includes[i])
                  /\ HasPrefix(query.loaded.includes[i].pattern, "*.")
              => /\ RootOf(query.loaded.includes[i]) \in Elements(query.result)
                 /\ HasWildcard(query.loaded, RootOf(query.loaded.includes[i]))

(***************************************************************************)
(* Properties of the workflows (Spec), continued                           *)
(***************************************************************************)
\* a result is accepted by the sink: a probe result without error in the
\* active workflow, a value not seen before in the recon workflow
AcceptedStep ==
    \/ workflow \in ActiveKinds /\ cnt'.activeCount = cnt.activeCount + 1
    \/ workflow = "recon" /\ seen \subseteq seen' /\ seen' # seen

\* after is before with n entries appended
Grew(before, after, n) ==
    /\ Len(after) = Len(before) + n
    /\ SubSeq(after, 1, Len(before)) = before

\* the canonical line of a record of the sink: its URL or its value
Canonical(record) ==
    IF workflow \in ActiveKinds THEN record["url"] ELSE record["value"]

\* C23: sink fan-out.  For every accepted result exactly one line is
\* appended to the text file if a text destination is configured, exactly
\* one record line is appended to the record file if a record destination
\* is configured, and one line is printed to the console if and only if
\* neither file is configured; every line carries the same result.
C23_SinkFanOut ==
    [][AcceptedStep
         => /\ Grew(textOut, textOut', IF opts.TextFile # "" THEN 1 ELSE 0)
            /\ Grew(jsonOut, jsonOut', IF opts.JSONFile # "" THEN 1 ELSE 0)
            /\ Grew(console, console',
                    IF opts.TextFile = "" /\ opts.JSONFile = "" THEN 1 ELSE 0)
            /\ opts.TextFile # "" /\ opts.JSONFile # ""
                  => textOut'[Len(textOut')].text
                       = Canonical(jsonOut'[Len(jsonOut')].text)]_vars

\* results were accepted with both files configured: each file has its
\* lines and nothing was printed
C23_Witness ==
    /\ opts.TextFile # ""
    /\ opts.JSONFile # ""
    /\ workflow = "recon"
    /\ Len(textOut) = 2
    /\ Len(jsonOut) = 2
    /\ console = <<>>

(***************************************************************************)
(* Properties of the compact record (ScopeSpec)                            *)
(***************************************************************************)
FixedKeys ==
    {"url", "input", "host", "port", "scheme", "status_code", "title", "webserver",
     "tech", "cdn", "cdn_name"}

\* a compact record was serialized
Compacted == query.op \in {"compactFromResult", "compactResult"} /\ query.valid

\* C24: compaction.  The serialized compact record has only keys of the
\* fixed set, and a field that is absent at the source is left out of the
\* output, not written as an empty placeholder.
C24_Compaction ==
    Compacted
        => /\ DOMAIN query.result \subseteq FixedKeys
           /\ \A key \in FixedKeys \ query.present : key \notin DOMAIN query.result

\* C24 as the code has it: url, input, host, scheme and status_code are
\* always written
C24_CoreKeysAlways ==
    Compacted
        => /\ DOMAIN query.result \subseteq FixedKeys
           /\ DOMAIN query.result
                = query.present \cup {"url", "input", "host", "scheme", "status_code"}

(***************************************************************************)
(* Properties of the streaming pipeline (Spec)                             *)
(***************************************************************************)
\* the ResultCallback of the active workflow forwards this report
IsForwarded(raw) == Filter(raw) = "inScope"

\* the in-scope candidates Discovery has reported, as forwarded, in order
InScopeReported ==
    [i \in 1..Len(SelectSeq(discovered, IsForwarded))
        |-> TrimSpace(SelectSeq(discovered, IsForwarded)[i])]

\* the consumer of the streaming Run has finished after a successful setup
ConsumerFinished == workflow = "active" /\ cpc = "done" /\ httpxErr = NoError

\* C25: stream integrity.  When the consumer finishes after a successful
\* setup, the candidates Probe has received are the in-scope candidates
\* Discovery reported (in their trimmed form), in discovery order, none
\* lost, reordered or duplicated, and the producer has closed its end.
C25_StreamIntegrity ==
    ConsumerFinished
        => /\ probed = InScopeReported
           /\ fifo.buf = <<>>
           /\ fifo.writer = "closed"
           /\ ppc = "done"

\* the consumer finished after Discovery reported a rejected host and then
\* an accepted one, which Probe received
C25_Witness ==
    /\ ConsumerFinished
    /\ Len(discovered) = 2
    /\ ~IsForwarded(discovered[1])
    /\ probed = <<TrimSpace(discovered[2])>>

(***************************************************************************)
(* Properties of the rendezvous (LiveSpec)                                 *)
(***************************************************************************)
\* Run has started its two goroutines and waits for them
Waiting == pc = "wait"

\* C26: deadlock freedom of the rendezvous.  Under fair scheduling, with
\* collaborators that return, a streaming Run that has started its two
\* goroutines eventually returns, also when the consumer fails its setup
\* and when the producer fails before or right after opening the write end.
C26_RunEventuallyReturns == Waiting ~> (pc = "returned")

\* C26 without the case of the write-open failing
C26_ReturnsUnlessOpenFails ==
    Waiting ~> (pc = "returned" \/ subfinderErr = "failed to open FIFO for writing")

(***************************************************************************)
(* Properties of the candidates handed on (Spec)                           *)
(***************************************************************************)
\* no value occurs twice in seq
NoRepeats(seq) == \A i, j \in 1..Len(seq) : seq[i] = seq[j] => i = j

\* the candidates written to the input of httpx: those it has read and
\* those still in the pipe
Handed == probed \o fifo.buf

\* C27: no duplicate probing.  In one run of the active workflow no
\* candidate value is handed to the Probe collaborator more than once,
\* also when Discovery reports the same in-scope host several times.
C27_NoDuplicateProbing == workflow = "active" => NoRepeats(Handed)

(***************************************************************************)
(* Properties of the roots of enumeration (Spec)                           *)
(***************************************************************************)
\* the root of the i-th subfinder run of this recon Run
RootAt(i) == sfRuns[i].Domain

\* C28: enumeration is wildcard-licensed.  Every root with which subdomain
\* Discovery is invoked, the top-level domain and every expansion seed,
\* satisfies IsInScope and HasWildcard at the time of the call.
C28_WildcardLicensed ==
    workflow = "recon"
        => \A i \in 1..Len(sfRuns) :
              IsInScope(scope, RootAt(i)) /\ HasWildcard(scope, RootAt(i))

\* C28 for IsInScope alone, and HasWildcard for the top-level domain
C28_RootsInScope ==
    workflow = "recon"
        => /\ \A i \in 1..Len(sfRuns) : IsInScope(scope, RootAt(i))
           /\ sfRuns # <<>> => HasWildcard(scope, RootAt(1))

(***************************************************************************)
(* Properties of the findings of the recon workflow (Spec)                 *)
(***************************************************************************)
\* the values the recon workflow has written to its destinations
Emitted ==
    {textOut[i].text : i \in 1..Len(textOut)}
        \cup {console[i].text : i \in 1..Len(console)}
        \cup {jsonOut[i].text.value : i \in 1..Len(jsonOut)}

\* the sources named by the findings of the record file
EmittedSources == {jsonOut[i].text.source : i \in 1..Len(jsonOut)}

\* C30: every value the recon workflow emits, from the exact-domain branch,
\* the first subfinder pass, the recursive pass and the gau collector,
\* satisfies IsInScope when it is emitted; the scope never changes, so it
\* does for as long as the value is in the output.
C30_EmittedInScope ==
    workflow = "recon" => \A value \in Emitted : IsInScope(scope, value)

\* findings of all four origins are in the record file
C30_Witness ==
    /\ workflow = "recon"
    /\ EmittedSources = {"scope", "subfinder", "subfinder-recursive", "gau"}

=============================================================================
